---- MODULE Spec2Model ----
(***************************************************************************)
(* Model of the Terraform provider resources aws_vpc_ipam,                 *)
(* aws_vpc_ipam_scope, aws_vpc_ipam_pool and aws_rds_parameter_group:      *)
(* the parameter batch planner ResourceParameterModifyChunk, the loop of   *)
(* resourceParameterGroupUpdate that drives it, and the Create / Read /    *)
(* Update / Delete handlers of the four adapters.                          *)
(***************************************************************************)
EXTENDS Integers, Sequences, FiniteSets, TLC

(***************************************************************************)
(* Bounds of the model.                                                    *)
(***************************************************************************)
\* longest input sequence handed to the planner under Spec
MaxParams == 4
\* largest capacity K handed to the planner under Spec
MaxChunk == 3
\* most lookups a wait makes before its timeout
MaxPolls == 2
\* most DeleteDBParameterGroup calls inside the retry window
MaxRetries == 2
\* largest "parameter" set of the configurations under SpecUpdate
MaxBigParams == 41
\* most parameters DescribeDBParameters returns to a Read
MaxDescribed == 2

(***************************************************************************)
(* Program constants.                                                      *)
(***************************************************************************)
maxParamModifyChunk == 20

(***************************************************************************)
(* State.                                                                  *)
(*   all          the sequence S first handed to the planner               *)
(*   maxChunkSize the capacity K of the planning loop                      *)
(*   parameters   the slice the next planner call receives (the remainder  *)
(*                of the previous call)                                    *)
(*   batches      the batches returned so far, in order                    *)
(*   lastIn       the argument of the most recent planner call             *)
(*   lastOut      the result of the most recent planner call               *)
(*   pc           position of the planning loop                            *)
(***************************************************************************)
VARIABLES all, maxChunkSize, parameters, batches, lastIn, lastOut, pc

planVars == <<all, maxChunkSize, parameters, batches, lastIn, lastOut, pc>>

(***************************************************************************)
(* State of one managed resource and of the handler that ran last on it.   *)
(*   kind     the adapter: "ipam", "scope", "pool" or "pg" ("none" when no *)
(*            resource is modelled)                                        *)
(*   id       the id recorded for the resource, "" when there is none      *)
(*   cfg      the configuration recorded for the resource                  *)
(*   region   the provider's current region                                *)
(*   setOrder the order in which schema.Set.List() yields the elements of  *)
(*            a "parameter" set (the order of their hash codes)            *)
(*   op       the handler that ran last, "none" between handlers           *)
(*   din      the ResourceData that handler received: id, IsNewResource,   *)
(*            the previously recorded (old) and the declared (new)         *)
(*            configuration                                                *)
(*   result   how the handler ended: "ok", "error" or "panic"              *)
(*   calls    the API calls the handler issued, in order, each with its    *)
(*            request and the response it received                         *)
(*   attrsSet whether the handler wrote the looked-up attributes           *)
(*   paramsRead the parameters DescribeDBParameters returned to the Read   *)
(*            of a parameter group and the parameters the Read kept        *)
(***************************************************************************)
VARIABLES kind, id, cfg, region, setOrder, op, din, result, calls, attrsSet,
          paramsRead

resVars ==
    <<kind, id, cfg, region, setOrder, op, din, result, calls, attrsSet,
      paramsRead>>

(***************************************************************************)
(* Go slices: a slice is nil or holds a sequence of elements.  A slice     *)
(* grown from nil by append is nil exactly when nothing was appended.      *)
(***************************************************************************)
NilSlice == [nil |-> TRUE, elems |-> <<>>]

MkSlice(s) == [nil |-> FALSE, elems |-> s]

Appended(s) == [nil |-> s = <<>>, elems |-> s]

Range(s) == { s[i] : i \in DOMAIN s }

(***************************************************************************)
(* strings.Contains(s, substr)                                             *)
(***************************************************************************)
Contains(s, substr) ==
    \E i \in 1..(Len(s) - Len(substr) + 1) :
        SubSeq(s, i, i + Len(substr) - 1) = substr

(***************************************************************************)
(* Parameters.  A *rds.Parameter is a pointer; ptr is its identity.        *)
(***************************************************************************)
ParameterNames ==
    {"character_set_client", "character_set_server", "max_connections",
     "old_character_set_db"}

ApplyMethods == {"immediate", "pending-reboot"}

ParamKinds == [ParameterName : ParameterNames, ApplyMethod : ApplyMethods]

MkParam(p, k) ==
    [ptr |-> p, ParameterName |-> k.ParameterName, ApplyMethod |-> k.ApplyMethod]

\* pass 1 without the apply-method test
IsCharsetImmediate_AnyMethod(p) == Contains(p.ParameterName, "character_set")

\* the condition of pass 1
IsCharsetImmediate(p) ==
    /\ Contains(p.ParameterName, "character_set")
    /\ p.ApplyMethod # "pending-reboot"

\* pass 2 without its test: it takes every parameter
IsImmediate_Always(p) == p.ApplyMethod \in ApplyMethods

\* the condition of pass 2
IsImmediate(p) == p.ApplyMethod # "pending-reboot"

(***************************************************************************)
(* ResourceParameterModifyChunk.  Each pass is the for loop of the code:   *)
(* i is the loop index, modifyChunk and remainder the slices built so far. *)
(* A pass yields returned = TRUE when its loop executed the return         *)
(* statement, and returned = FALSE when the loop ran to its end.           *)
(***************************************************************************)
\* pass 1 returning only the unscanned tail, all[i:], as the remainder
RECURSIVE Pass1_TailOnly(_, _, _, _, _)
Pass1_TailOnly(in, i, modifyChunk, remainder, max) ==
    IF i > Len(in)
    THEN [returned |-> FALSE, modifyChunk |-> modifyChunk, remainder |-> remainder]
    ELSE IF Len(modifyChunk) >= max
    THEN [returned |-> TRUE, modifyChunk |-> modifyChunk,
          remainder |-> SubSeq(in, i, Len(in))]
    ELSE IF IsCharsetImmediate(in[i])
    THEN Pass1_TailOnly(in, i + 1, Append(modifyChunk, in[i]), remainder, max)
    ELSE Pass1_TailOnly(in, i + 1, modifyChunk, Append(remainder, in[i]), max)

RECURSIVE Pass1(_, _, _, _, _)
Pass1(in, i, modifyChunk, remainder, max) ==
    IF i > Len(in)
    THEN [returned |-> FALSE, modifyChunk |-> modifyChunk, remainder |-> remainder]
    ELSE IF Len(modifyChunk) >= max
    THEN [returned |-> TRUE, modifyChunk |-> modifyChunk,
          remainder |-> remainder \o SubSeq(in, i, Len(in))]
    ELSE IF IsCharsetImmediate(in[i])
    THEN Pass1(in, i + 1, Append(modifyChunk, in[i]), remainder, max)
    ELSE Pass1(in, i + 1, modifyChunk, Append(remainder, in[i]), max)

\* pass 2 testing len(modifyChunk) > maxChunkSize
RECURSIVE Pass2_Over(_, _, _, _, _)
Pass2_Over(in, i, modifyChunk, remainder, max) ==
    IF i > Len(in)
    THEN [returned |-> FALSE, modifyChunk |-> modifyChunk, remainder |-> remainder]
    ELSE IF Len(modifyChunk) > max
    THEN [returned |-> TRUE, modifyChunk |-> modifyChunk,
          remainder |-> remainder \o SubSeq(in, i, Len(in))]
    ELSE IF IsImmediate(in[i])
    THEN Pass2_Over(in, i + 1, Append(modifyChunk, in[i]), remainder, max)
    ELSE Pass2_Over(in, i + 1, modifyChunk, Append(remainder, in[i]), max)

RECURSIVE Pass2(_, _, _, _, _)
Pass2(in, i, modifyChunk, remainder, max) ==
    IF i > Len(in)
    THEN [returned |-> FALSE, modifyChunk |-> modifyChunk, remainder |-> remainder]
    ELSE IF Len(modifyChunk) >= max
    THEN [returned |-> TRUE, modifyChunk |-> modifyChunk,
          remainder |-> remainder \o SubSeq(in, i, Len(in))]
    ELSE IF IsImmediate(in[i])
    THEN Pass2(in, i + 1, Append(modifyChunk, in[i]), remainder, max)
    ELSE Pass2(in, i + 1, modifyChunk, Append(remainder, in[i]), max)

\* pass 3 returning all[i+1:] as the remainder
RECURSIVE Pass3_OffByOne(_, _, _, _, _)
Pass3_OffByOne(in, i, modifyChunk, remainder, max) ==
    IF i > Len(in)
    THEN [returned |-> FALSE, modifyChunk |-> modifyChunk, remainder |-> remainder]
    ELSE IF Len(modifyChunk) >= max
    THEN [returned |-> TRUE, modifyChunk |-> modifyChunk,
          remainder |-> remainder \o SubSeq(in, i + 1, Len(in))]
    ELSE Pass3_OffByOne(in, i + 1, Append(modifyChunk, in[i]), remainder, max)

RECURSIVE Pass3(_, _, _, _, _)
Pass3(in, i, modifyChunk, remainder, max) ==
    IF i > Len(in)
    THEN [returned |-> FALSE, modifyChunk |-> modifyChunk, remainder |-> remainder]
    ELSE IF Len(modifyChunk) >= max
    THEN [returned |-> TRUE, modifyChunk |-> modifyChunk,
          remainder |-> remainder \o SubSeq(in, i, Len(in))]
    ELSE Pass3(in, i + 1, Append(modifyChunk, in[i]), remainder, max)

\* the slices a pass hands back to the caller of the planner
ChunkResult(r) ==
    [chunk |-> Appended(r.modifyChunk), remainder |-> Appended(r.remainder)]

\* the planner testing len(all) < maxChunkSize before the passes
ResourceParameterModifyChunk_Strict(in, max) ==
    IF Len(in.elems) < max
    THEN [chunk |-> in, remainder |-> NilSlice]
    ELSE LET p1 == Pass1(in.elems, 1, <<>>, <<>>, max)
             p2 == Pass2(p1.remainder, 1, p1.modifyChunk, <<>>, max)
             p3 == Pass3(p2.remainder, 1, p2.modifyChunk, <<>>, max)
         IN  IF p1.returned THEN ChunkResult(p1)
             ELSE IF p2.returned THEN ChunkResult(p2)
             ELSE ChunkResult(p3)

\* the planner without its passes: the first max parameters in arrival
\* order
ResourceParameterModifyChunk_Head(in, max) ==
    IF Len(in.elems) <= max
    THEN [chunk |-> in, remainder |-> NilSlice]
    ELSE [chunk |-> MkSlice(SubSeq(in.elems, 1, max)),
          remainder |-> MkSlice(SubSeq(in.elems, max + 1, Len(in.elems)))]

\* in is a slice; the result is the pair (chunk, remainder) of slices
ResourceParameterModifyChunk(in, max) ==
    IF Len(in.elems) <= max
    THEN [chunk |-> in, remainder |-> NilSlice]
    ELSE LET p1 == Pass1(in.elems, 1, <<>>, <<>>, max)
             p2 == Pass2(p1.remainder, 1, p1.modifyChunk, <<>>, max)
             p3 == Pass3(p2.remainder, 1, p2.modifyChunk, <<>>, max)
         IN  IF p1.returned THEN ChunkResult(p1)
             ELSE IF p2.returned THEN ChunkResult(p2)
             ELSE ChunkResult(p3)

(***************************************************************************)
(* The planning loop: the planner is called on S and then on each          *)
(* returned remainder until the remainder is nil.                          *)
(***************************************************************************)
InputSeqs ==
    UNION { { [i \in 1..n |-> MkParam(i, f[i])] : f \in [1..n -> ParamKinds] } :
            n \in 0..MaxParams }

\* the caller's slice: nil, or a slice holding a sequence of parameters
InputSlices == {NilSlice} \cup { MkSlice(s) : s \in InputSeqs }

NoCall == [chunk |-> NilSlice, remainder |-> NilSlice]

(***************************************************************************)
(* Optional request fields: None is a nil pointer, Some(v) a set field.    *)
(***************************************************************************)
None == <<>>

Some(v) == <<v>>

(***************************************************************************)
(* Responses of the lookup APIs (DescribeIpams, DescribeIpamScopes,        *)
(* DescribeIpamPools): one object in the given state, an empty result, or  *)
(* an error with a code.                                                   *)
(***************************************************************************)
Found(state) == [out |-> "found", state |-> state, code |-> ""]

Empty == [out |-> "empty", state |-> "", code |-> ""]

Failed(code) == [out |-> "error", state |-> "", code |-> code]

\* an API error code that no handler treats specially
InternalError == "InternalError"

\* one entry of the call log: by tells whether the handler itself, its
\* Read or a wait issued the call
Call(api, req, resp) ==
    [api |-> api, req |-> req, resp |-> resp, by |-> "handler"]

ReadCall(api, req, resp) ==
    [api |-> api, req |-> req, resp |-> resp, by |-> "read"]

\* no DescribeDBParameters result: the handler did not come to keep
\* parameters
NoParamsRead == [kept |-> FALSE, parameters |-> <<>>, userParams |-> <<>>]

\* how a handler ended
HR(res, newId, cs, set) ==
    [result |-> res, id |-> newId, calls |-> cs, attrsSet |-> set,
     params |-> NoParamsRead]

\* a handler result with the calls cs issued before it
After(cs, r) == [r EXCEPT !.calls = cs \o r.calls]

\* d.HasChange(key)
HasChange(d, key) == d.old[key] # d.new[key]

\* d.HasChangesExcept(...): some key of keys, the schema's keys without the
\* excepted ones, has a change
HasChangesIn(d, keys) == \E key \in keys : HasChange(d, key)

\* d.GetOk(key): the value is set when it is not the zero value of its type
GetOkString(d, key) == d.new[key] # ""

GetOkInt(d, key) == d.new[key] # 0

GetOkBool(d, key) == d.new[key] # FALSE

\* *resource.NotFoundError, which WaitForState gives when refresh keeps
\* returning a nil result
NotFoundError == "NotFoundError"

isResourceNotFoundError(err) == err = NotFoundError

(***************************************************************************)
(* resource.StateChangeConf.WaitForState: calls refresh until it reports   *)
(* an error, a target state or a state that is not pending, or until the   *)
(* timeout ends the wait.  refreshes are the results refresh gives, in     *)
(* order; the timeout strikes when they are used up.  Yields the error of  *)
(* the wait ("" for none) and the number of refreshes made.                *)
(***************************************************************************)
TimeoutError == "TimeoutError"

UnexpectedStateError == "UnexpectedStateError"

RECURSIVE WaitForState(_, _, _, _)
WaitForState(refreshes, i, Pending, Target) ==
    IF i > Len(refreshes) THEN [err |-> TimeoutError, n |-> i - 1]
    ELSE IF refreshes[i].panic THEN [err |-> "panic", n |-> i]
    ELSE IF refreshes[i].err # "" THEN [err |-> refreshes[i].err, n |-> i]
    ELSE IF refreshes[i].state \in Target THEN [err |-> "", n |-> i]
    ELSE IF refreshes[i].state \in Pending
    THEN WaitForState(refreshes, i + 1, Pending, Target)
    ELSE [err |-> UnexpectedStateError, n |-> i]

\* what a StateRefreshFunc returns
Refreshed(state, err) == [state |-> state, err |-> err, panic |-> FALSE]

RefreshPanic == [state |-> "", err |-> "", panic |-> TRUE]

\* the log of the first n lookups of a wait
PollCalls(api, ident, polls, n) ==
    [i \in 1..n |->
        [api |-> api, req |-> ident, resp |-> polls[i], by |-> "wait"]]

(***************************************************************************)
(* aws_vpc_ipam                                                            *)
(***************************************************************************)
IpamStatusAvailable == "Available"

InvalidIpamIdNotFound == "InvalidIpamId.NotFound"

Regions == {"us-east-1", "us-west-2"}

Descriptions == {"", "a", "b"}

IpamConfigs ==
    [description : Descriptions, operating_regions : SUBSET Regions \ {{}}]

IpamNull == [description |-> "", operating_regions |-> {}]

\* yields the pair (object, error): nil is a nil object, err = "" a nil error
findIpamById(resp) ==
    IF resp.out = "error" THEN [nil |-> TRUE, state |-> "", err |-> resp.code]
    ELSE IF resp.out = "empty" THEN [nil |-> TRUE, state |-> "", err |-> ""]
    ELSE [nil |-> FALSE, state |-> resp.state, err |-> ""]

expandAwsIpamOperatingRegionsDefaultRegion_AnyRegion(operatingRegions, current_region) ==
    \E r \in operatingRegions : r \in Regions

expandAwsIpamOperatingRegionsDefaultRegion(operatingRegions, current_region) ==
    \E r \in operatingRegions : r = current_region

expandAwsIpamOperatingRegions(operatingRegions) ==
    { [RegionName |-> r] : r \in operatingRegions }

expandAwsIpamOperatingRegionsUpdateAddRegions(operatingRegions) ==
    { [RegionName |-> r] : r \in operatingRegions }

expandAwsIpamOperatingRegionsUpdateDeleteRegions_SkipHome(operatingRegions) ==
    { [RegionName |-> r] : r \in operatingRegions \ {"us-east-1"} }

expandAwsIpamOperatingRegionsUpdateDeleteRegions(operatingRegions) ==
    { [RegionName |-> r] : r \in operatingRegions }

resourceAwsVpcIpamRead(d, resp) ==
    LET f == findIpamById(resp)
        cs == <<ReadCall("DescribeIpams", d.id, resp)>>
    IN  IF f.err # "" /\ f.err # InvalidIpamIdNotFound
        THEN HR("error", d.id, cs, FALSE)
        ELSE IF ~d.isNew /\ f.nil THEN HR("ok", "", cs, FALSE)
        \* ipam.IpamArn with a nil ipam
        ELSE IF f.nil THEN HR("panic", d.id, cs, FALSE)
        ELSE HR("ok", d.id, cs, TRUE)

\* env.create is "" when CreateIpam succeeds, else the error code
resourceAwsVpcIpamCreate(d, current_region, env) ==
    LET operatingRegions == d.new.operating_regions
        input == [Description |-> IF GetOkString(d, "description")
                                  THEN Some(d.new.description) ELSE None,
                  OperatingRegions |->
                      expandAwsIpamOperatingRegions(operatingRegions)]
        cs == <<Call("CreateIpam", input, env.create)>>
    IN  IF ~expandAwsIpamOperatingRegionsDefaultRegion(operatingRegions,
                                                       current_region)
        THEN HR("error", d.id, <<>>, FALSE)
        ELSE IF env.create # "" THEN HR("error", d.id, cs, FALSE)
        ELSE After(cs, resourceAwsVpcIpamRead([d EXCEPT !.id = env.newId],
                                              env.read))

resourceAwsVpcIpamUpdate(d, env) ==
    LET os == d.old.operating_regions
        ns == d.new.operating_regions
        operatingRegionUpdateAdd ==
            expandAwsIpamOperatingRegionsUpdateAddRegions(ns \ os)
        operatingRegionUpdateRemove ==
            expandAwsIpamOperatingRegionsUpdateDeleteRegions(os \ ns)
        input == [IpamId |-> d.id,
                  Description |-> IF HasChange(d, "description")
                                  THEN Some(d.new.description) ELSE None,
                  AddOperatingRegions |->
                      IF Cardinality(operatingRegionUpdateAdd) # 0
                      THEN Some(operatingRegionUpdateAdd) ELSE None,
                  RemoveOperatingRegions |->
                      IF Cardinality(operatingRegionUpdateRemove) # 0
                      THEN Some(operatingRegionUpdateRemove) ELSE None]
        cs == <<Call("ModifyIpam", input, env.modify)>>
    IN  IF HasChange(d, "operating_regions")
        THEN IF env.modify # "" THEN HR("error", d.id, cs, FALSE)
             ELSE HR("ok", d.id, cs, FALSE)
        ELSE HR("ok", d.id, <<>>, FALSE)

statusIpamStatus(resp) ==
    LET f == findIpamById(resp)
    IN  IF f.err = InvalidIpamIdNotFound
        THEN Refreshed(InvalidIpamIdNotFound, "")
        ELSE IF f.err # "" THEN Refreshed("", f.err)
        ELSE Refreshed(IpamStatusAvailable, "")

waiterIpamDeleted(polls) ==
    WaitForState([i \in DOMAIN polls |-> statusIpamStatus(polls[i])], 1,
                 {IpamStatusAvailable}, {InvalidIpamIdNotFound})

\* env.delete is "" when DeleteIpam succeeds, else the error code
resourceAwsVpcIpamDelete(d, env) ==
    LET del == <<Call("DeleteIpam", d.id, env.delete)>>
        w == waiterIpamDeleted(env.polls)
        cs == del \o PollCalls("DescribeIpams", d.id, env.polls, w.n)
    IN  IF env.delete # "" THEN HR("error", d.id, del, FALSE)
        ELSE IF w.err = "panic" THEN HR("panic", d.id, cs, FALSE)
        ELSE IF w.err # ""
        THEN IF w.err = InvalidIpamIdNotFound THEN HR("ok", d.id, cs, FALSE)
             ELSE HR("error", d.id, cs, FALSE)
        ELSE HR("ok", d.id, cs, FALSE)

(***************************************************************************)
(* aws_vpc_ipam_scope                                                      *)
(***************************************************************************)
IpamScopeStatusAvailable == "Available"

InvalidIpamScopeIdNotFound == "InvalidIpamScopeId.NotFound"

ScopeConfigs == [description : Descriptions, ipam_id : {"ipam-1", "ipam-2"}]

ScopeNull == [description |-> "", ipam_id |-> ""]

findIpamScopeById(resp) ==
    IF resp.out = "error" THEN [nil |-> TRUE, state |-> "", err |-> resp.code]
    ELSE IF resp.out = "empty" THEN [nil |-> TRUE, state |-> "", err |-> ""]
    ELSE [nil |-> FALSE, state |-> resp.state, err |-> ""]

resourceAwsVpcIpamScopeRead(d, resp) ==
    LET f == findIpamScopeById(resp)
        cs == <<ReadCall("DescribeIpamScopes", d.id, resp)>>
    IN  \* *scope.IpamArn is evaluated before err and scope are tested
        IF f.nil THEN HR("panic", d.id, cs, FALSE)
        ELSE IF f.err # "" /\ f.err # InvalidIpamScopeIdNotFound
        THEN HR("error", d.id, cs, FALSE)
        ELSE IF ~d.isNew /\ f.nil THEN HR("ok", "", cs, FALSE)
        ELSE HR("ok", d.id, cs, TRUE)

resourceAwsVpcIpamScopeCreate(d, env) ==
    LET input == [IpamId |-> d.new.ipam_id,
                  Description |-> IF GetOkString(d, "description")
                                  THEN Some(d.new.description) ELSE None]
        cs == <<Call("CreateIpamScope", input, env.create)>>
    IN  IF env.create # "" THEN HR("error", d.id, cs, FALSE)
        ELSE After(cs, resourceAwsVpcIpamScopeRead(
                           [d EXCEPT !.id = env.newId], env.read))

resourceAwsVpcIpamScopeUpdate(d, env) ==
    LET input == [IpamScopeId |-> d.id,
                  Description |->
                      IF /\ HasChangesIn(d, {"description", "ipam_id"})
                         /\ GetOkString(d, "description")
                      THEN Some(d.new.description) ELSE None]
        cs == <<Call("ModifyIpamScope", input, env.modify)>>
    IN  IF env.modify # "" THEN HR("error", d.id, cs, FALSE)
        ELSE After(cs, resourceAwsVpcIpamScopeRead(d, env.read))

statusIpamScopeStatus(resp) ==
    LET f == findIpamScopeById(resp)
    IN  IF f.err = InvalidIpamScopeIdNotFound
        THEN Refreshed(InvalidIpamScopeIdNotFound, "")
        ELSE IF f.err # "" THEN Refreshed("", f.err)
        ELSE Refreshed(IpamScopeStatusAvailable, "")

\* a wait for deletion that takes "Available" for a target status
waitIpamScopeDeleted_AvailableIsTarget(polls) ==
    WaitForState([i \in DOMAIN polls |-> statusIpamScopeStatus(polls[i])], 1,
                 {}, {IpamScopeStatusAvailable, InvalidIpamScopeIdNotFound})

waitIpamScopeDeleted(polls) ==
    WaitForState([i \in DOMAIN polls |-> statusIpamScopeStatus(polls[i])], 1,
                 {IpamScopeStatusAvailable}, {InvalidIpamScopeIdNotFound})

resourceAwsVpcIpamScopeDelete(d, env) ==
    LET del == <<Call("DeleteIpamScope", d.id, env.delete)>>
        w == waitIpamScopeDeleted(env.polls)
        cs == del \o PollCalls("DescribeIpamScopes", d.id, env.polls, w.n)
    IN  IF env.delete # "" THEN HR("error", d.id, del, FALSE)
        ELSE IF w.err = "panic" THEN HR("panic", d.id, cs, FALSE)
        ELSE IF w.err # ""
        THEN IF isResourceNotFoundError(w.err) THEN HR("ok", d.id, cs, FALSE)
             ELSE HR("error", d.id, cs, FALSE)
        ELSE HR("ok", d.id, cs, FALSE)

(***************************************************************************)
(* aws_vpc_ipam_pool                                                       *)
(***************************************************************************)
InvalidIpamPoolIdNotFound == "InvalidIpamPoolId.NotFound"

IpamPoolStateCreateInProgress == "create-in-progress"

IpamPoolStateCreateComplete == "create-complete"

IpamPoolStateModifyInProgress == "modify-in-progress"

IpamPoolStateModifyComplete == "modify-complete"

IpamPoolStateDeleteInProgress == "delete-in-progress"

AddressFamilyIpv6 == "ipv6"

PoolStates ==
    {IpamPoolStateCreateInProgress, IpamPoolStateCreateComplete,
     IpamPoolStateModifyInProgress, IpamPoolStateModifyComplete,
     IpamPoolStateDeleteInProgress}

\* a tag map is the set of its key/value pairs
TagMaps ==
    {{}, {[Key |-> "k", Value |-> "v1"]}, {[Key |-> "k", Value |-> "v2"]}}

PoolConfigs ==
    [address_family : {"ipv4"},
     advertisable : {FALSE},
     allocation_default_netmask_length : {0, 24},
     allocation_max_netmask_length : {28},
     allocation_min_netmask_length : {0},
     allocation_resource_tags : TagMaps,
     auto_import : BOOLEAN,
     description : Descriptions,
     ipam_scope_id : {"scope-1"},
     locale : {"None"},
     source_ipam_pool_id : {""}]

PoolNull ==
    [address_family |-> "", advertisable |-> FALSE,
     allocation_default_netmask_length |-> 0,
     allocation_max_netmask_length |-> 0,
     allocation_min_netmask_length |-> 0,
     allocation_resource_tags |-> {}, auto_import |-> FALSE,
     description |-> "", ipam_scope_id |-> "", locale |-> "",
     source_ipam_pool_id |-> ""]

\* KeyValueTags.Removed: the tags of old whose key is not in new
Removed(oldTags, newTags) ==
    { t \in oldTags : \A u \in newTags : u.Key # t.Key }

\* KeyValueTags.Updated: the tags of new that old does not hold with the
\* same value
Updated(oldTags, newTags) == { t \in newTags : t \notin oldTags }

\* KeyValueTags.IgnoreAws: without the tags whose key starts with "aws:"
IgnoreAws(tags) ==
    { t \in tags : ~(Len(t.Key) >= 4 /\ SubSeq(t.Key, 1, 4) = "aws:") }

ipamResourceTags(tags) == { [Key |-> t.Key, Value |-> t.Value] : t \in tags }

findIpamPoolById(resp) ==
    IF resp.out = "error" THEN [nil |-> TRUE, state |-> "", err |-> resp.code]
    ELSE IF resp.out = "empty" THEN [nil |-> TRUE, state |-> "", err |-> ""]
    ELSE [nil |-> FALSE, state |-> resp.state, err |-> ""]

statusIpamPoolStatus(resp) ==
    LET f == findIpamPoolById(resp)
    IN  IF f.err = InvalidIpamPoolIdNotFound
        THEN Refreshed(InvalidIpamPoolIdNotFound, "")
        ELSE IF f.err # "" THEN Refreshed("", f.err)
        \* output.State with a nil output
        ELSE IF f.nil THEN RefreshPanic
        ELSE Refreshed(f.state, "")

\* a wait that takes the end of the timeout for success
waitIpamPoolAvailable_IgnoreTimeout(polls) ==
    LET w == WaitForState([i \in DOMAIN polls |->
                              statusIpamPoolStatus(polls[i])], 1,
                          {IpamPoolStateCreateInProgress},
                          {IpamPoolStateCreateComplete})
    IN  IF w.err = TimeoutError THEN [w EXCEPT !.err = ""] ELSE w

waitIpamPoolAvailable(polls) ==
    WaitForState([i \in DOMAIN polls |-> statusIpamPoolStatus(polls[i])], 1,
                 {IpamPoolStateCreateInProgress}, {IpamPoolStateCreateComplete})

waitIpamPoolUpdate(polls) ==
    WaitForState([i \in DOMAIN polls |-> statusIpamPoolStatus(polls[i])], 1,
                 {IpamPoolStateModifyInProgress}, {IpamPoolStateModifyComplete})

waitIpamPoolDeleted(polls) ==
    WaitForState([i \in DOMAIN polls |-> statusIpamPoolStatus(polls[i])], 1,
                 {IpamPoolStateDeleteInProgress}, {InvalidIpamPoolIdNotFound})

resourceAwsVpcIpamPoolRead(d, resp) ==
    LET f == findIpamPoolById(resp)
        cs == <<ReadCall("DescribeIpamPools", d.id, resp)>>
    IN  IF f.err # "" /\ f.err # InvalidIpamPoolIdNotFound
        THEN HR("error", d.id, cs, FALSE)
        ELSE IF ~d.isNew /\ f.nil THEN HR("ok", "", cs, FALSE)
        \* pool.IpamPoolArn with a nil pool
        ELSE IF f.nil THEN HR("panic", d.id, cs, FALSE)
        ELSE HR("ok", d.id, cs, TRUE)

resourceAwsVpcIpamPoolCreate(d, env) ==
    LET input ==
            [AddressFamily |-> d.new.address_family,
             IpamScopeId |-> d.new.ipam_scope_id,
             Advertisable |->
                 IF d.new.address_family = AddressFamilyIpv6
                 THEN Some(d.new.advertisable) ELSE None,
             AllocationDefaultNetmaskLength |->
                 IF GetOkInt(d, "allocation_default_netmask_length")
                 THEN Some(d.new.allocation_default_netmask_length) ELSE None,
             AllocationMaxNetmaskLength |->
                 IF GetOkInt(d, "allocation_max_netmask_length")
                 THEN Some(d.new.allocation_max_netmask_length) ELSE None,
             AllocationMinNetmaskLength |->
                 IF GetOkInt(d, "allocation_min_netmask_length")
                 THEN Some(d.new.allocation_min_netmask_length) ELSE None,
             AllocationResourceTags |->
                 IF Cardinality(d.new.allocation_resource_tags) > 0
                 THEN Some(ipamResourceTags(d.new.allocation_resource_tags))
                 ELSE None,
             AutoImport |-> IF GetOkBool(d, "auto_import")
                            THEN Some(d.new.auto_import) ELSE None,
             Description |-> IF GetOkString(d, "description")
                             THEN Some(d.new.description) ELSE None,
             Locale |-> IF GetOkString(d, "locale") /\ d.new.locale # "None"
                        THEN Some(d.new.locale) ELSE None,
             SourceIpamPoolId |->
                 IF GetOkString(d, "source_ipam_pool_id")
                 THEN Some(d.new.source_ipam_pool_id) ELSE None]
        create == <<Call("CreateIpamPool", input, env.create)>>
        w == waitIpamPoolAvailable(env.polls)
        cs == create
              \o PollCalls("DescribeIpamPools", env.newId, env.polls, w.n)
    IN  IF env.create # "" THEN HR("error", d.id, create, FALSE)
        ELSE IF w.err = "panic" THEN HR("panic", env.newId, cs, FALSE)
        ELSE IF w.err # "" THEN HR("error", env.newId, cs, FALSE)
        ELSE After(cs, resourceAwsVpcIpamPoolRead(
                           [d EXCEPT !.id = env.newId], env.read))

resourceAwsVpcIpamPoolUpdate(d, env) ==
    LET changes ==
            HasChangesIn(d, {"address_family", "advertisable",
                             "allocation_default_netmask_length",
                             "allocation_max_netmask_length",
                             "allocation_min_netmask_length",
                             "auto_import", "description", "ipam_scope_id",
                             "locale", "source_ipam_pool_id"})
        removedTags == Removed(d.old.allocation_resource_tags,
                               d.new.allocation_resource_tags)
        updatedTags == Updated(d.old.allocation_resource_tags,
                               d.new.allocation_resource_tags)
        input ==
            [IpamPoolId |-> d.id,
             AllocationDefaultNetmaskLength |->
                 IF changes /\ GetOkInt(d, "allocation_default_netmask_length")
                 THEN Some(d.new.allocation_default_netmask_length) ELSE None,
             AutoImport |-> IF changes /\ GetOkBool(d, "auto_import")
                            THEN Some(d.new.auto_import) ELSE None,
             AllocationMaxNetmaskLength |->
                 IF changes /\ GetOkInt(d, "allocation_max_netmask_length")
                 THEN Some(d.new.allocation_max_netmask_length) ELSE None,
             AllocationMinNetmaskLength |->
                 IF changes /\ GetOkInt(d, "allocation_min_netmask_length")
                 THEN Some(d.new.allocation_min_netmask_length) ELSE None,
             Description |-> IF changes /\ GetOkString(d, "description")
                             THEN Some(d.new.description) ELSE None,
             RemoveAllocationResourceTags |->
                 IF /\ HasChange(d, "allocation_resource_tags")
                    /\ Cardinality(removedTags) > 0
                 THEN Some(ipamResourceTags(IgnoreAws(removedTags)))
                 ELSE None,
             AddAllocationResourceTags |->
                 IF /\ HasChange(d, "allocation_resource_tags")
                    /\ Cardinality(updatedTags) > 0
                 THEN Some(ipamResourceTags(IgnoreAws(updatedTags)))
                 ELSE None]
        modify == <<Call("ModifyIpamPool", input, env.modify)>>
        w == waitIpamPoolUpdate(env.polls)
        cs == modify \o PollCalls("DescribeIpamPools", d.id, env.polls, w.n)
    IN  IF env.modify # "" THEN HR("error", d.id, modify, FALSE)
        ELSE IF w.err = "panic" THEN HR("panic", d.id, cs, FALSE)
        ELSE IF w.err # "" THEN HR("error", d.id, cs, FALSE)
        ELSE After(cs, resourceAwsVpcIpamPoolRead(d, env.read))

resourceAwsVpcIpamPoolDelete(d, env) ==
    LET del == <<Call("DeleteIpamPool", d.id, env.delete)>>
        w == waitIpamPoolDeleted(env.polls)
        cs == del \o PollCalls("DescribeIpamPools", d.id, env.polls, w.n)
    IN  IF env.delete # "" THEN HR("error", d.id, del, FALSE)
        ELSE IF w.err = "panic" THEN HR("panic", d.id, cs, FALSE)
        ELSE IF w.err # ""
        THEN IF isResourceNotFoundError(w.err) THEN HR("ok", d.id, cs, FALSE)
             ELSE HR("error", d.id, cs, FALSE)
        ELSE HR("ok", d.id, cs, FALSE)

(***************************************************************************)
(* aws_rds_parameter_group                                                 *)
(***************************************************************************)
ErrCodeDBParameterGroupNotFoundFault == "DBParameterGroupNotFound"

InvalidDBParameterGroupStateFault == "InvalidDBParameterGroupState"

\* the elements a "parameter" set of the small configurations may hold
PgParamUniverse ==
    << [name |-> "character_set_client", value |-> "utf8",
        apply_method |-> "immediate"],
       [name |-> "character_set_client", value |-> "latin1",
        apply_method |-> "immediate"],
       [name |-> "max_connections", value |-> "100",
        apply_method |-> "immediate"],
       [name |-> "max_connections", value |-> "100",
        apply_method |-> "pending-reboot"] >>

Reverse(s) == [i \in 1..Len(s) |-> s[Len(s) + 1 - i]]

TagsAll == {"t1", "t2"}

PgNull == [parameter |-> {}, tags_all |-> ""]

\* schema.Set.List(): the elements of the set in the order of their hash codes
List(set, order) == SelectSeq(order, LAMBDA e : e \in set)

\* one *rds.Parameter per element of the list; nothing appended leaves nil
expandParameters(configured) ==
    Appended([i \in 1..Len(configured) |->
                 [ptr |-> i,
                  ParameterName |-> configured[i].name,
                  ParameterValue |-> configured[i].value,
                  ApplyMethod |-> configured[i].apply_method]])

\* an "if parameters != nil" where the loop should be: one Modify call
ModifyLoop_Once(params, cs, k, failAt) ==
    IF params.nil THEN [err |-> FALSE, calls |-> cs]
    ELSE LET r == ResourceParameterModifyChunk(params, maxParamModifyChunk)
             c == Call("ModifyDBParameterGroup", r.chunk.elems,
                       IF k = failAt THEN InternalError ELSE "")
         IN  [err |-> k = failAt, calls |-> Append(cs, c)]

\* the loop "for parameters != nil": k is the number of the next Modify
\* call, failAt the number of the call that fails (0: none fails)
RECURSIVE ModifyLoop(_, _, _, _)
ModifyLoop(params, cs, k, failAt) ==
    IF params.nil THEN [err |-> FALSE, calls |-> cs]
    ELSE LET r == ResourceParameterModifyChunk(params, maxParamModifyChunk)
             paramsToModify == r.chunk.elems
             c == Call("ModifyDBParameterGroup", paramsToModify,
                       IF k = failAt THEN InternalError ELSE "")
         IN  IF k = failAt THEN [err |-> TRUE, calls |-> Append(cs, c)]
             ELSE ModifyLoop(r.remainder, Append(cs, c), k + 1, failAt)

\* the parameters of os.List() that ns.List() does not hold, whatever
\* their names
ToRemove_ByElement(osList, nsList) ==
    { osList[i] : i \in { k \in DOMAIN osList :
                            \A j \in DOMAIN nsList :
                                \/ nsList[j].ParameterName
                                       # osList[k].ParameterName
                                \/ nsList[j].ParameterValue
                                       # osList[k].ParameterValue
                                \/ nsList[j].ApplyMethod
                                       # osList[k].ApplyMethod } }

\* the map toRemove: the parameter kept for a name is the last one of
\* os.List() that bears it
ToRemove(osList, nsList) ==
    LET names == { osList[i].ParameterName : i \in DOMAIN osList }
                 \ { nsList[i].ParameterName : i \in DOMAIN nsList }
        last(n) == CHOOSE i \in DOMAIN osList :
                      /\ osList[i].ParameterName = n
                      /\ \A j \in DOMAIN osList :
                            osList[j].ParameterName = n => j <= i
    IN  { osList[last(n)] : n \in names }

\* a reset loop that goes on after a failed Reset call
RECURSIVE ResetLoop_Swallow(_, _, _, _)
ResetLoop_Swallow(resetParameters, cs, k, failAt) ==
    IF resetParameters.nil THEN [err |-> FALSE, calls |-> cs]
    ELSE LET short == Len(resetParameters.elems) <= maxParamModifyChunk
             paramsToReset ==
                 IF short THEN resetParameters.elems
                 ELSE SubSeq(resetParameters.elems, 1, maxParamModifyChunk)
             rest ==
                 IF short THEN NilSlice
                 ELSE MkSlice(SubSeq(resetParameters.elems,
                                     maxParamModifyChunk + 1,
                                     Len(resetParameters.elems)))
             c == Call("ResetDBParameterGroup", paramsToReset,
                       IF k = failAt THEN InternalError ELSE "")
         IN  ResetLoop_Swallow(rest, Append(cs, c), k + 1, failAt)

\* the loop "for resetParameters != nil"
RECURSIVE ResetLoop(_, _, _, _)
ResetLoop(resetParameters, cs, k, failAt) ==
    IF resetParameters.nil THEN [err |-> FALSE, calls |-> cs]
    ELSE LET short == Len(resetParameters.elems) <= maxParamModifyChunk
             paramsToReset ==
                 IF short THEN resetParameters.elems
                 ELSE SubSeq(resetParameters.elems, 1, maxParamModifyChunk)
             rest ==
                 IF short THEN NilSlice
                 ELSE MkSlice(SubSeq(resetParameters.elems,
                                     maxParamModifyChunk + 1,
                                     Len(resetParameters.elems)))
             c == Call("ResetDBParameterGroup", paramsToReset,
                       IF k = failAt THEN InternalError ELSE "")
         IN  IF k = failAt THEN [err |-> TRUE, calls |-> Append(cs, c)]
             ELSE ResetLoop(rest, Append(cs, c), k + 1, failAt)

\* the loop over confParams for one returned parameter that is not
\* user-set, without its break
RECURSIVE ConfLoop_NoBreak(_, _, _, _)
ConfLoop_NoBreak(confParams, j, param, userParams) ==
    IF j > Len(confParams) THEN userParams
    ELSE IF confParams[j].ParameterName = param.ParameterName[1]
    THEN ConfLoop_NoBreak(confParams, j + 1, param,
                          Append(userParams, param))
    ELSE ConfLoop_NoBreak(confParams, j + 1, param, userParams)

\* the loop over confParams for one returned parameter that is not
\* user-set: the parameter is appended at the first configured parameter
\* of its name
RECURSIVE ConfLoop(_, _, _, _)
ConfLoop(confParams, j, param, userParams) ==
    IF j > Len(confParams) THEN userParams
    ELSE IF confParams[j].ParameterName = param.ParameterName[1]
    THEN Append(userParams, param)
    ELSE ConfLoop(confParams, j + 1, param, userParams)

\* the loop over the returned parameters; Source and ParameterName are
\* pointers, None when nil
RECURSIVE UserParamsLoop(_, _, _, _)
UserParamsLoop(prms, i, confParams, userParams) ==
    IF i > Len(prms) THEN userParams
    ELSE LET param == prms[i]
         IN  IF param.Source = None \/ param.ParameterName = None
             THEN UserParamsLoop(prms, i + 1, confParams, userParams)
             ELSE IF param.Source = Some("user")
             THEN UserParamsLoop(prms, i + 1, confParams,
                                 Append(userParams, param))
             ELSE UserParamsLoop(prms, i + 1, confParams,
                                 ConfLoop(confParams, 1, param, userParams))

\* userParams, the parameters handed to d.Set("parameter", ...)
UserParams(configParams, prms) ==
    IF Len(configParams) < 1 THEN prms
    ELSE UserParamsLoop(prms, 1, expandParameters(configParams).elems, <<>>)

\* env.describe is the response of DescribeDBParameterGroups: "found" for
\* one group of the requested name, "empty" for any other result, else the
\* error code; env.describeParams and env.listTags are "" or an error
\* code; env.returned are the parameters of the DescribeDBParameters pages
resourceParameterGroupRead(d, order, env) ==
    LET configParams == List(d.new.parameter, order)
        kept == [kept |-> TRUE, parameters |-> env.returned,
                 userParams |-> UserParams(configParams, env.returned)]
        c1 == <<ReadCall("DescribeDBParameterGroups", d.id, env.describe)>>
        c2 == Append(c1, ReadCall("DescribeDBParameters",
                              IF Cardinality(d.new.parameter) < 1
                              THEN Some("user") ELSE None,
                              env.describeParams))
        c3 == Append(c2, ReadCall("ListTags", d.id, env.listTags))
    IN  IF env.describe \notin {"found", "empty"}
        THEN IF env.describe = ErrCodeDBParameterGroupNotFoundFault
             THEN HR("ok", "", c1, FALSE)
             ELSE HR("error", d.id, c1, FALSE)
        ELSE IF env.describe = "empty" THEN HR("error", d.id, c1, FALSE)
        ELSE IF env.describeParams # "" THEN HR("error", d.id, c2, FALSE)
        ELSE IF env.listTags # ""
        THEN [HR("error", d.id, c3, FALSE) EXCEPT !.params = kept]
        ELSE [HR("ok", d.id, c3, TRUE) EXCEPT !.params = kept]

\* env.modifyFail and env.resetFail number the failing Modify and Reset
\* call (0: none), env.resetReversed chooses the iteration order of the map
\* toRemove, env.updateTags is "" or an error code
resourceParameterGroupUpdate(d, order, env) ==
    LET os == d.old.parameter
        ns == d.new.parameter
        params == expandParameters(List(ns \ os, order))
        modified == IF Len(params.elems) > 0
                    THEN ModifyLoop(params, <<>>, 1, env.modifyFail)
                    ELSE [err |-> FALSE, calls |-> <<>>]
        toRemove == ToRemove(expandParameters(List(os, order)).elems,
                             expandParameters(List(ns, order)).elems)
        inOrder == SelectSeq(expandParameters(List(os, order)).elems,
                             LAMBDA p : p \in toRemove)
        resetParameters ==
            Appended(IF env.resetReversed THEN Reverse(inOrder) ELSE inOrder)
        reset == IF Len(resetParameters.elems) > 0
                 THEN ResetLoop(resetParameters, modified.calls, 1,
                                env.resetFail)
                 ELSE [err |-> FALSE, calls |-> modified.calls]
        afterParams == IF HasChange(d, "parameter") THEN reset.calls ELSE <<>>
        tagged == IF HasChange(d, "tags_all")
                  THEN Append(afterParams,
                              Call("UpdateTags",
                                   <<d.old.tags_all, d.new.tags_all>>,
                                   env.updateTags))
                  ELSE afterParams
    IN  IF HasChange(d, "parameter") /\ modified.err
        THEN HR("error", d.id, modified.calls, FALSE)
        ELSE IF HasChange(d, "parameter") /\ reset.err
        THEN HR("error", d.id, reset.calls, FALSE)
        ELSE IF HasChange(d, "tags_all") /\ env.updateTags # ""
        THEN HR("error", d.id, tagged, FALSE)
        ELSE After(tagged, resourceParameterGroupRead(d, order, env))

\* the Update run whatever CreateDBParameterGroup returned
resourceParameterGroupCreate_IgnoreError(d, order, env) ==
    After(<<Call("CreateDBParameterGroup", d.new.tags_all, env.create)>>,
          resourceParameterGroupUpdate([d EXCEPT !.id = env.newId], order,
                                       env))

resourceParameterGroupCreate(d, order, env) ==
    LET cs == <<Call("CreateDBParameterGroup", d.new.tags_all, env.create)>>
    IN  IF env.create # "" THEN HR("error", d.id, cs, FALSE)
        ELSE After(cs, resourceParameterGroupUpdate(
                           [d EXCEPT !.id = env.newId], order, env))

\* resource.RetryContext around DeleteDBParameterGroup: attempts are the
\* responses of the calls made inside the window ("" for success); the
\* window ends when they are used up.  Yields the error ("" for none), the
\* number of calls made and whether the window timed out.
RECURSIVE RetryDelete(_, _)
RetryDelete(attempts, i) ==
    IF i > Len(attempts)
    THEN [err |-> TimeoutError, n |-> i - 1, timeout |-> TRUE]
    ELSE IF attempts[i] = ErrCodeDBParameterGroupNotFoundFault
    THEN [err |-> "", n |-> i, timeout |-> FALSE]
    ELSE IF attempts[i] = InvalidDBParameterGroupStateFault
    THEN RetryDelete(attempts, i + 1)
    ELSE IF attempts[i] # ""
    THEN [err |-> attempts[i], n |-> i, timeout |-> FALSE]
    ELSE [err |-> "", n |-> i, timeout |-> FALSE]

\* the further attempt made after any error of the retry, not only after
\* a timeout
resourceParameterGroupDelete_RetryAnyError(d, env) ==
    LET r == RetryDelete(env.attempts, 1)
        inWindow == [i \in 1..r.n |->
                        Call("DeleteDBParameterGroup", d.id, env.attempts[i])]
        extra == Append(inWindow,
                        Call("DeleteDBParameterGroup", d.id, env.extra))
    IN  IF r.err # ""
        THEN IF env.extra # "" THEN HR("error", d.id, extra, FALSE)
             ELSE HR("ok", d.id, extra, FALSE)
        ELSE HR("ok", d.id, inWindow, FALSE)

\* env.timedOut is the value of tfresource.TimedOut(err) when the window
\* timed out: the error RetryContext returns is then a timeout error or
\* the last error of the function it retried
resourceParameterGroupDelete(d, env) ==
    LET r == RetryDelete(env.attempts, 1)
        inWindow == [i \in 1..r.n |->
                        Call("DeleteDBParameterGroup", d.id, env.attempts[i])]
        extra == Append(inWindow,
                        Call("DeleteDBParameterGroup", d.id, env.extra))
    IN  IF r.timeout /\ env.timedOut
        THEN IF env.extra # "" THEN HR("error", d.id, extra, FALSE)
             ELSE HR("ok", d.id, extra, FALSE)
        ELSE IF r.err # "" THEN HR("error", d.id, inWindow, FALSE)
        ELSE HR("ok", d.id, inWindow, FALSE)

PlanInit ==
    /\ all \in InputSlices
    /\ maxChunkSize \in 1..MaxChunk
    /\ parameters = all
    /\ batches = <<>>
    /\ lastIn = NilSlice
    /\ lastOut = NoCall
    /\ pc = "call"

\* one iteration: paramsToModify, parameters = ResourceParameterModifyChunk(...)
PlanCall ==
    /\ pc = "call"
    /\ LET r == ResourceParameterModifyChunk(parameters, maxChunkSize)
       IN  /\ lastIn' = parameters
           /\ lastOut' = r
           /\ batches' = Append(batches, r.chunk.elems)
           /\ parameters' = r.remainder
           /\ pc' = IF r.remainder.nil THEN "done" ELSE "call"
    /\ UNCHANGED <<all, maxChunkSize>>
    /\ UNCHANGED resVars

(***************************************************************************)
(* The environment: the responses the APIs may give.                       *)
(***************************************************************************)
Kinds == {"ipam", "scope", "pool", "pg"}

Null(k) ==
    CASE k = "ipam" -> IpamNull
      [] k = "scope" -> ScopeNull
      [] k = "pool" -> PoolNull
      [] k = "pg" -> PgNull
      [] OTHER -> IpamNull

NotFoundCode(k) ==
    CASE k = "ipam" -> InvalidIpamIdNotFound
      [] k = "scope" -> InvalidIpamScopeIdNotFound
      [] k = "pool" -> InvalidIpamPoolIdNotFound
      [] k = "pg" -> ErrCodeDBParameterGroupNotFoundFault

NewId == "id-1"

\* responses of a lookup made by a Read
ReadResps(k) ==
    {Found(IF k = "pool" THEN IpamPoolStateCreateComplete ELSE ""), Empty,
     Failed(NotFoundCode(k)), Failed(InternalError)}

\* responses of a lookup made by a wait
PollResps(k) ==
    (IF k = "pool" THEN { Found(st) : st \in PoolStates } ELSE {Found("")})
    \cup {Empty, Failed(NotFoundCode(k)), Failed(InternalError)}

\* the lookups the named wait makes, up to the timeout
PollSeqs(k, wait) ==
    { polls \in UNION { [1..n -> PollResps(k)] : n \in 1..MaxPolls } :
        LET w == CASE wait = "waiterIpamDeleted" -> waiterIpamDeleted(polls)
                   [] wait = "waitIpamScopeDeleted" -> waitIpamScopeDeleted(polls)
                   [] wait = "waitIpamPoolAvailable" -> waitIpamPoolAvailable(polls)
                   [] wait = "waitIpamPoolUpdate" -> waitIpamPoolUpdate(polls)
                   [] wait = "waitIpamPoolDeleted" -> waitIpamPoolDeleted(polls)
        IN  w.n = Len(polls) }

\* responses of a create or modify call: success or an error
CallResps == {"", InternalError}

\* responses of a delete call
DeleteResps(k) == {"", NotFoundCode(k), InternalError}

\* responses of DeleteDBParameterGroup
PgDeleteResps ==
    {"", ErrCodeDBParameterGroupNotFoundFault,
     InvalidDBParameterGroupStateFault, InternalError}

PgAttempts ==
    { a \in UNION { [1..n -> PgDeleteResps] : n \in 0..MaxRetries } :
        RetryDelete(a, 1).n = Len(a) }

\* a parameter DescribeDBParameters returns: its name and its source, each
\* of which may be nil
DescribedKinds ==
    [ParameterName : {None, Some("character_set_client"),
                      Some("max_connections")},
     Source : {None, Some("user"), Some("system")}]

\* the parameters DescribeDBParameters may return to a Read; ptr is the
\* identity of a returned parameter
DescribedLists ==
    UNION { { [i \in 1..n |-> [ptr |-> i] @@ f[i]] :
                f \in [1..n -> DescribedKinds] } : n \in 0..MaxDescribed }

\* the parameters DescribeDBParameters returns to the Read that ends an
\* Update: none, or a user-set one and an engine default
FewDescribed ==
    {<<>>,
     <<[ptr |-> 1, ParameterName |-> Some("character_set_client"),
        Source |-> Some("user")],
       [ptr |-> 2, ParameterName |-> Some("max_connections"),
        Source |-> Some("system")]>>}

\* the environment of resourceParameterGroupRead, with the parameters
\* returned drawn from lists: a response that is not asked for is left at
\* success, parameters are returned when DescribeDBParameters succeeds
PgReadEnvs(lists) ==
    { e \in [describe : {"found", "empty",
                         ErrCodeDBParameterGroupNotFoundFault, InternalError},
             describeParams : CallResps, listTags : CallResps,
             returned : lists \cup {<<>>}] :
        /\ e.describe # "found" => e.describeParams = ""
        /\ e.describeParams # "" => e.listTags = ""
        /\ (e.describe # "found" \/ e.describeParams # "")
              => e.returned = <<>> }

\* most Modify or Reset calls an Update makes for sets drawn from order
MaxCalls(order) ==
    (Len(order) + maxParamModifyChunk - 1) \div maxParamModifyChunk

\* the environment of resourceParameterGroupUpdate and of its Read
PgUpdateEnvs(order) ==
    { u @@ e : u \in [modifyFail : 0..MaxCalls(order),
                      resetFail : 0..MaxCalls(order),
                      resetReversed : BOOLEAN, updateTags : CallResps],
               e \in PgReadEnvs(FewDescribed) }

\* a large universe of MaxBigParams elements: every third name holds
\* "character_set", every a-th element is applied at reboot; the last
\* element bears the name of the first one, with another value
BigUniverse(a) ==
    [i \in 1..MaxBigParams |->
        [name |-> IF i = MaxBigParams THEN "character_set_1"
                  ELSE (IF i % 3 = 1 THEN "character_set_" ELSE "param_")
                       \o ToString(i),
         value |-> IF i = MaxBigParams THEN "2" ELSE "1",
         apply_method |-> IF i % a = 0 THEN "pending-reboot"
                          ELSE "immediate"]]

\* the sizes around the multiples of maxParamModifyChunk, up to n
BoundarySizes(n) ==
    { m \in 0..n : \/ m \in {0, 1, n}
                    \/ m % maxParamModifyChunk \in
                           {0, 1, maxParamModifyChunk - 1} }

\* the "parameter" sets declared over the elements of order: every subset
\* of a small universe; of a large one the initial segments of boundary
\* size and the elements after the first maxParamModifyChunk + 2
PgSets(order) ==
    IF Len(order) <= Len(PgParamUniverse) THEN SUBSET Range(order)
    ELSE { Range(SubSeq(order, 1, n)) : n \in BoundarySizes(Len(order)) }
         \cup { Range(SubSeq(order, maxParamModifyChunk + 3, Len(order))) }

PgConfigs(order) ==
    [parameter : PgSets(order),
     tags_all : TagsAll]

(***************************************************************************)
(* The handlers as actions.  A handler runs on a resource at rest          *)
(* (op = "none"); Return puts the resource at rest again.                  *)
(***************************************************************************)
NoData == [id |-> "", isNew |-> FALSE, old |-> IpamNull, new |-> IpamNull]

Data(ident, new, old, cur) ==
    [id |-> ident, isNew |-> new, old |-> old, new |-> cur]

AtRest == op = "none"

\* the handler named o ran on d and ended as r; c is the configuration
\* recorded afterwards
Ran(o, d, r, c) ==
    /\ op' = o
    /\ din' = d
    /\ result' = r.result
    /\ calls' = r.calls
    /\ attrsSet' = r.attrsSet
    /\ paramsRead' = r.params
    /\ id' = r.id
    /\ cfg' = c
    /\ UNCHANGED <<kind, region, setOrder>>
    /\ UNCHANGED planVars

\* Create: on a resource without id, with a declared configuration
RanCreate(o, d, r) == Ran(o, d, r, IF r.id # "" THEN d.new ELSE Null(kind))

\* Read: keeps the recorded configuration while the resource is kept
RanRead(o, d, r) == Ran(o, d, r, IF r.id # "" THEN cfg ELSE Null(kind))

\* Update: records the declared configuration when it succeeds
RanUpdate(o, d, r) ==
    Ran(o, d, r, IF r.id = "" THEN Null(kind)
                 ELSE IF r.result = "ok" THEN d.new ELSE cfg)

\* Delete: the framework drops the resource when the handler succeeds
RanDelete(o, d, r) ==
    Ran(o, d, [r EXCEPT !.id = IF r.result = "ok" THEN "" ELSE r.id],
        IF r.result = "ok" THEN Null(kind) ELSE cfg)

IpamCreate ==
    /\ AtRest /\ kind = "ipam" /\ id = ""
    /\ \E new \in IpamConfigs, create \in CallResps, read \in ReadResps("ipam") :
          LET d == Data("", TRUE, IpamNull, new)
              env == [create |-> create, newId |-> NewId, read |-> read]
          IN  RanCreate("Create", d, resourceAwsVpcIpamCreate(d, region, env))

IpamRead ==
    /\ AtRest /\ kind = "ipam" /\ id # ""
    /\ \E read \in ReadResps("ipam") :
          LET d == Data(id, FALSE, cfg, cfg)
          IN  RanRead("Read", d, resourceAwsVpcIpamRead(d, read))

IpamUpdate ==
    /\ AtRest /\ kind = "ipam" /\ id # ""
    /\ \E new \in IpamConfigs \ {cfg}, modify \in CallResps :
          LET d == Data(id, FALSE, cfg, new)
              env == [modify |-> modify]
          IN  RanUpdate("Update", d, resourceAwsVpcIpamUpdate(d, env))

IpamDelete ==
    /\ AtRest /\ kind = "ipam" /\ id # ""
    /\ \E del \in DeleteResps("ipam"),
          polls \in PollSeqs("ipam", "waiterIpamDeleted") :
          LET d == Data(id, FALSE, cfg, cfg)
              env == [delete |-> del, polls |-> polls]
          IN  RanDelete("Delete", d, resourceAwsVpcIpamDelete(d, env))

ScopeCreate ==
    /\ AtRest /\ kind = "scope" /\ id = ""
    /\ \E new \in ScopeConfigs, create \in CallResps,
          read \in ReadResps("scope") :
          LET d == Data("", TRUE, ScopeNull, new)
              env == [create |-> create, newId |-> NewId, read |-> read]
          IN  RanCreate("Create", d, resourceAwsVpcIpamScopeCreate(d, env))

ScopeRead ==
    /\ AtRest /\ kind = "scope" /\ id # ""
    /\ \E read \in ReadResps("scope") :
          LET d == Data(id, FALSE, cfg, cfg)
          IN  RanRead("Read", d, resourceAwsVpcIpamScopeRead(d, read))

ScopeUpdate ==
    /\ AtRest /\ kind = "scope" /\ id # ""
    /\ \E new \in ScopeConfigs \ {cfg}, modify \in CallResps,
          read \in ReadResps("scope") :
          LET d == Data(id, FALSE, cfg, new)
              env == [modify |-> modify, read |-> read]
          IN  RanUpdate("Update", d, resourceAwsVpcIpamScopeUpdate(d, env))

ScopeDelete ==
    /\ AtRest /\ kind = "scope" /\ id # ""
    /\ \E del \in DeleteResps("scope"),
          polls \in PollSeqs("scope", "waitIpamScopeDeleted") :
          LET d == Data(id, FALSE, cfg, cfg)
              env == [delete |-> del, polls |-> polls]
          IN  RanDelete("Delete", d, resourceAwsVpcIpamScopeDelete(d, env))

PoolCreate ==
    /\ AtRest /\ kind = "pool" /\ id = ""
    /\ \E new \in PoolConfigs, create \in CallResps,
          polls \in PollSeqs("pool", "waitIpamPoolAvailable"),
          read \in ReadResps("pool") :
          LET d == Data("", TRUE, PoolNull, new)
              env == [create |-> create, newId |-> NewId, polls |-> polls,
                      read |-> read]
          IN  RanCreate("Create", d, resourceAwsVpcIpamPoolCreate(d, env))

PoolRead ==
    /\ AtRest /\ kind = "pool" /\ id # ""
    /\ \E read \in ReadResps("pool") :
          LET d == Data(id, FALSE, cfg, cfg)
          IN  RanRead("Read", d, resourceAwsVpcIpamPoolRead(d, read))

PoolUpdate ==
    /\ AtRest /\ kind = "pool" /\ id # ""
    /\ \E new \in PoolConfigs \ {cfg}, modify \in CallResps,
          polls \in PollSeqs("pool", "waitIpamPoolUpdate"),
          read \in ReadResps("pool") :
          LET d == Data(id, FALSE, cfg, new)
              env == [modify |-> modify, polls |-> polls, read |-> read]
          IN  RanUpdate("Update", d, resourceAwsVpcIpamPoolUpdate(d, env))

PoolDelete ==
    /\ AtRest /\ kind = "pool" /\ id # ""
    /\ \E del \in DeleteResps("pool"),
          polls \in PollSeqs("pool", "waitIpamPoolDeleted") :
          LET d == Data(id, FALSE, cfg, cfg)
              env == [delete |-> del, polls |-> polls]
          IN  RanDelete("Delete", d, resourceAwsVpcIpamPoolDelete(d, env))

PgCreate ==
    /\ AtRest /\ kind = "pg" /\ id = ""
    /\ \E new \in PgConfigs(setOrder), create \in CallResps,
          e \in PgUpdateEnvs(setOrder) :
          LET d == Data("", TRUE, PgNull, new)
              env == [create |-> create, newId |-> NewId] @@ e
          IN  RanCreate("Create", d,
                      resourceParameterGroupCreate(d, setOrder, env))

PgRead ==
    /\ AtRest /\ kind = "pg" /\ id # ""
    /\ \E e \in PgReadEnvs(DescribedLists) :
          LET d == Data(id, FALSE, cfg, cfg)
          IN  RanRead("Read", d,
                      resourceParameterGroupRead(d, setOrder, e))

PgUpdate ==
    /\ AtRest /\ kind = "pg" /\ id # ""
    /\ \E new \in PgConfigs(setOrder) \ {cfg}, e \in PgUpdateEnvs(setOrder) :
          LET d == Data(id, FALSE, cfg, new)
          IN  RanUpdate("Update", d,
                       resourceParameterGroupUpdate(d, setOrder, e))

PgDelete ==
    /\ AtRest /\ kind = "pg" /\ id # ""
    /\ \E attempts \in PgAttempts, timedOut \in BOOLEAN,
          extra \in PgDeleteResps :
          LET d == Data(id, FALSE, cfg, cfg)
              env == [attempts |-> attempts, timedOut |-> timedOut,
                      extra |-> extra]
          IN  RanDelete("Delete", d, resourceParameterGroupDelete(d, env))

\* the handler has returned to the framework
Return ==
    /\ ~AtRest
    /\ op' = "none"
    /\ din' = NoData
    /\ result' = "none"
    /\ calls' = <<>>
    /\ attrsSet' = FALSE
    /\ paramsRead' = NoParamsRead
    /\ UNCHANGED <<kind, id, cfg, region, setOrder>>
    /\ UNCHANGED planVars

(***************************************************************************)
(* Specifications.                                                         *)
(***************************************************************************)
vars == <<planVars, resVars>>

\* no resource: the planning loop alone
ResIdle ==
    /\ kind = "none"
    /\ id = ""
    /\ cfg = IpamNull
    /\ region = ""
    /\ setOrder = <<>>
    /\ op = "none"
    /\ din = NoData
    /\ result = "none"
    /\ calls = <<>>
    /\ attrsSet = FALSE
    /\ paramsRead = NoParamsRead

\* no planning loop: a resource alone
PlanIdle ==
    /\ all = NilSlice
    /\ maxChunkSize = maxParamModifyChunk
    /\ parameters = NilSlice
    /\ batches = <<>>
    /\ lastIn = NilSlice
    /\ lastOut = NoCall
    /\ pc = "idle"

Init == PlanInit /\ ResIdle

Next == PlanCall

Spec == Init /\ [][Next]_vars

\* a resource of one of the four kinds, not yet created
CrudInit ==
    /\ PlanIdle
    /\ kind \in Kinds
    /\ id = ""
    /\ cfg = Null(kind)
    /\ region \in (IF kind = "ipam" THEN Regions ELSE {"us-east-1"})
    /\ setOrder \in (IF kind = "pg"
                     THEN {PgParamUniverse, Reverse(PgParamUniverse)}
                     ELSE {<<>>})
    /\ op = "none"
    /\ din = NoData
    /\ result = "none"
    /\ calls = <<>>
    /\ attrsSet = FALSE
    /\ paramsRead = NoParamsRead

CrudNext ==
    \/ IpamCreate \/ IpamRead \/ IpamUpdate \/ IpamDelete
    \/ ScopeCreate \/ ScopeRead \/ ScopeUpdate \/ ScopeDelete
    \/ PoolCreate \/ PoolRead \/ PoolUpdate \/ PoolDelete
    \/ PgCreate \/ PgRead \/ PgUpdate \/ PgDelete
    \/ Return

SpecCrud == CrudInit /\ [][CrudNext]_vars

\* an existing parameter group with a large "parameter" set, updated
UpdateInit ==
    /\ PlanIdle
    /\ kind = "pg"
    /\ id = NewId
    /\ setOrder \in {BigUniverse(2), BigUniverse(5)}
    /\ cfg \in PgConfigs(setOrder)
    /\ region = "us-east-1"
    /\ op = "none"
    /\ din = NoData
    /\ result = "none"
    /\ calls = <<>>
    /\ attrsSet = FALSE
    /\ paramsRead = NoParamsRead

UpdateNext == PgUpdate \/ Return

SpecUpdate == UpdateInit /\ [][UpdateNext]_vars

(***************************************************************************)
(* Vocabulary of the properties.                                           *)
(***************************************************************************)
RECURSIVE Flatten(_)
Flatten(ss) == IF ss = <<>> THEN <<>> ELSE Head(ss) \o Flatten(Tail(ss))

Occurrences(x, s) == Cardinality({ i \in DOMAIN s : s[i] = x })

\* priority class of a parameter: 1 immediate "character_set", 2 other
\* immediate, 3 pending-reboot
Class(p) ==
    IF p.ApplyMethod = "pending-reboot" THEN 3
    ELSE IF \E i \in 1..(Len(p.ParameterName) - 12) :
                SubSeq(p.ParameterName, i, i + 12) = "character_set" THEN 1
    ELSE 2

Prioritized(b) == \A i, j \in DOMAIN b : i < j => Class(b[i]) <= Class(b[j])

Called == batches # <<>>

InElems == lastIn.elems

ChunkElems == lastOut.chunk.elems

RemainderElems == lastOut.remainder.elems

(***************************************************************************)
(* C1  Partition completeness: when the planning loop has stopped, every   *)
(* parameter of S occurs exactly once in the concatenation of the batches  *)
(* and nothing else occurs in it.                                          *)
(***************************************************************************)
C1_PartitionComplete ==
    pc = "done" =>
        /\ \A p \in Range(all.elems) : Occurrences(p, Flatten(batches)) = 1
        /\ Range(Flatten(batches)) \subseteq Range(all.elems)
        /\ Len(Flatten(batches)) = Len(all.elems)

C1_Witness ==
    /\ pc = "done"
    /\ Len(batches) >= 2
    /\ \E i, j \in DOMAIN all.elems :
          /\ i < j
          /\ Class(all.elems[i]) = 3
          /\ Class(all.elems[j]) = 1
    /\ Len(batches[Len(batches)]) < maxChunkSize

(***************************************************************************)
(* C2  Capacity bound: every batch a planner call returns has at most K    *)
(* parameters, and exactly K when the call received at least K.            *)
(***************************************************************************)
C2_CapacityBound ==
    Called =>
        /\ Len(ChunkElems) <= maxChunkSize
        /\ Len(InElems) >= maxChunkSize => Len(ChunkElems) = maxChunkSize

\* the capacity is reached on the last element pass 1 scans
C2_Witness ==
    /\ Called
    /\ Len(InElems) > maxChunkSize
    /\ Class(InElems[Len(InElems)]) = 1
    /\ Cardinality({ i \in DOMAIN InElems : Class(InElems[i]) = 1 }) = maxChunkSize
    /\ Len(ChunkElems) = maxChunkSize

(***************************************************************************)
(* C3  Prioritization, as claimed: for every input, in the first batch the *)
(* immediate "character_set" parameters precede the other immediate ones,  *)
(* which precede the pending-reboot ones.                                  *)
(***************************************************************************)
C3_Original == Called => Prioritized(batches[1])

(***************************************************************************)
(* C3  Prioritization, amended: the order holds in the batch of every      *)
(* planner call that received more than K parameters.                      *)
(***************************************************************************)
C3_Prioritized ==
    (Called /\ Len(InElems) > maxChunkSize) => Prioritized(ChunkElems)

C3_Witness ==
    /\ Called
    /\ Len(InElems) > maxChunkSize
    /\ ~Prioritized(SubSeq(InElems, 1, maxChunkSize))
    /\ { Class(ChunkElems[i]) : i \in DOMAIN ChunkElems } = {1, 2, 3}

(***************************************************************************)
(* C4  Trivial case: a planner call that receives at most K parameters     *)
(* returns them all as its batch, in the order received, with a nil        *)
(* remainder, and the loop stops after that call.                          *)
(***************************************************************************)
C4_TrivialCase ==
    (Called /\ Len(InElems) <= maxChunkSize) =>
        /\ ChunkElems = InElems
        /\ lastOut.remainder = NilSlice
        /\ pc = "done"

\* planning over the empty set
C4_Witness ==
    /\ all.elems = <<>>
    /\ batches = << <<>> >>
    /\ lastOut.remainder.nil
    /\ pc = "done"

(***************************************************************************)
(* C5  Remainder order: a planner call that receives more than K           *)
(* parameters returns as remainder the received sequence with the          *)
(* parameters of the batch taken out, the others in the order received.    *)
(***************************************************************************)
C5_RemainderOrder ==
    (Called /\ Len(InElems) > maxChunkSize) =>
        RemainderElems =
            SelectSeq(InElems, LAMBDA p : p \notin Range(ChunkElems))

\* the capacity runs out in pass 2 after a parameter was skipped, with a
\* parameter left unscanned
C5_Witness ==
    /\ Called
    /\ Len(InElems) > maxChunkSize
    /\ Len(RemainderElems) >= 2
    /\ Class(RemainderElems[1]) = 3
    /\ Class(RemainderElems[Len(RemainderElems)]) = 2
    /\ \E i, j \in DOMAIN InElems :
          /\ i < j
          /\ InElems[i] = RemainderElems[1]
          /\ InElems[j] \in Range(ChunkElems)

(***************************************************************************)
(* Vocabulary of the handler properties.                                   *)
(***************************************************************************)
ModifyCalls == SelectSeq(calls, LAMBDA c : c.api = "ModifyDBParameterGroup")

\* the parameters of the declared set that the recorded set does not hold
ChangedParams == din.new.parameter \ din.old.parameter

\* the lookup the Read of the handler made, if it made one
ReadLookups ==
    SelectSeq(calls, LAMBDA c :
        /\ c.by = "read"
        /\ c.api \in {"DescribeIpams", "DescribeIpamScopes",
                      "DescribeIpamPools", "DescribeDBParameterGroups"})

\* a lookup response saying that the resource does not exist
IsNotFound(resp) ==
    IF kind = "pg"
    THEN resp \in {ErrCodeDBParameterGroupNotFoundFault, "empty"}
    ELSE resp \in {Empty, Failed(NotFoundCode(kind))}

\* a response of a delete call or of a deletion poll saying that the
\* resource is gone
IsGone(c) ==
    IF c.by = "wait" THEN c.resp = Failed(NotFoundCode(kind))
    ELSE c.resp = NotFoundCode(kind)

(***************************************************************************)
(* C6  Batched update loop: an Update whose Modify calls all succeed makes *)
(* ceil(n/20) of them for n changed parameters (none for n = 0), and every *)
(* Modify call carries at least 1 and at most 20 parameters.               *)
(***************************************************************************)
C6_BatchedUpdateLoop ==
    (op = "Update" /\ kind = "pg") =>
        /\ \A i \in DOMAIN ModifyCalls :
              /\ Len(ModifyCalls[i].req) >= 1
              /\ Len(ModifyCalls[i].req) <= 20
        /\ (\A i \in DOMAIN ModifyCalls : ModifyCalls[i].resp = "") =>
              Len(ModifyCalls) = (Cardinality(ChangedParams) + 19) \div 20

\* 41 changed parameters go out in three calls, the last with one parameter
C6_Witness ==
    /\ op = "Update"
    /\ kind = "pg"
    /\ Cardinality(ChangedParams) = 41
    /\ Len(ModifyCalls) = 3
    /\ \A i \in DOMAIN ModifyCalls : ModifyCalls[i].resp = ""
    /\ Len(ModifyCalls[3].req) = 1

(***************************************************************************)
(* C7  Not-found on read: a Read of a resource that is not new, whose      *)
(* lookup says the resource does not exist, clears the id and returns no   *)
(* error; the Read of a Create whose lookup says so returns an error and   *)
(* keeps the id.                                                           *)
(***************************************************************************)
C7_NotFoundOnRead ==
    (ReadLookups # <<>> /\ IsNotFound(ReadLookups[1].resp)) =>
        IF din.isNew THEN result = "error" /\ id # ""
        ELSE result = "ok" /\ id = ""

(***************************************************************************)
(* C8  Not-found on delete is success: a Delete whose last delete call or  *)
(* deletion poll reports that the resource is gone returns success.        *)
(***************************************************************************)
C8_NotFoundOnDelete ==
    (op = "Delete" /\ calls # <<>> /\ IsGone(calls[Len(calls)])) =>
        result = "ok"

(***************************************************************************)
(* C9  Delete retry classification: in the Delete of a parameter group     *)
(* only an invalid-state fault is followed by another delete call, the     *)
(* calls number at most those of the retry window and one more, and a      *)
(* delete error other than not-found and invalid-state is the last call    *)
(* and ends the Delete with an error.                                      *)
(***************************************************************************)
C9_DeleteRetry ==
    (op = "Delete" /\ kind = "pg") =>
        /\ \A i \in DOMAIN calls :
              i < Len(calls) => calls[i].resp = InvalidDBParameterGroupStateFault
        /\ Len(calls) <= MaxRetries + 1
        /\ \A i \in DOMAIN calls :
              calls[i].resp \notin {"", ErrCodeDBParameterGroupNotFoundFault,
                                    InvalidDBParameterGroupStateFault}
                  => i = Len(calls) /\ result = "error"
        /\ (calls # <<>> /\ result = "ok") =>
              calls[Len(calls)].resp # InvalidDBParameterGroupStateFault

\* two invalid-state faults use up the window, the further attempt succeeds
C9_Witness ==
    /\ op = "Delete"
    /\ kind = "pg"
    /\ Len(calls) = 3
    /\ calls[1].resp = InvalidDBParameterGroupStateFault
    /\ calls[2].resp = InvalidDBParameterGroupStateFault
    /\ calls[3].resp = ""
    /\ result = "ok"

(***************************************************************************)
(* C10  Update never re-issues unchanged fields: every field, sub-resource *)
(* or parameter an Update puts in its modify request differs between the   *)
(* recorded and the declared configuration.                                *)
(***************************************************************************)
FieldChanged(req, field, key) == req[field] # None => HasChange(din, key)

C10_OnlyChangedFields ==
    (op = "Update" /\ calls # <<>>) =>
        LET req == calls[1].req
        IN  CASE kind = "ipam" ->
                    /\ FieldChanged(req, "Description", "description")
                    /\ FieldChanged(req, "AddOperatingRegions",
                                    "operating_regions")
                    /\ FieldChanged(req, "RemoveOperatingRegions",
                                    "operating_regions")
              [] kind = "scope" ->
                    FieldChanged(req, "Description", "description")
              [] kind = "pool" ->
                    /\ FieldChanged(req, "Description", "description")
                    /\ FieldChanged(req, "AutoImport", "auto_import")
                    /\ FieldChanged(req, "AllocationDefaultNetmaskLength",
                                    "allocation_default_netmask_length")
                    /\ FieldChanged(req, "AllocationMaxNetmaskLength",
                                    "allocation_max_netmask_length")
                    /\ FieldChanged(req, "AllocationMinNetmaskLength",
                                    "allocation_min_netmask_length")
                    /\ FieldChanged(req, "AddAllocationResourceTags",
                                    "allocation_resource_tags")
                    /\ FieldChanged(req, "RemoveAllocationResourceTags",
                                    "allocation_resource_tags")
              [] kind = "pg" ->
                    \A i \in DOMAIN ModifyCalls :
                        \A j \in DOMAIN ModifyCalls[i].req :
                            LET p == ModifyCalls[i].req[j]
                            IN  [name |-> p.ParameterName,
                                 value |-> p.ParameterValue,
                                 apply_method |-> p.ApplyMethod]
                                    \notin din.old.parameter

(***************************************************************************)
(* Vocabulary of the call log of a handler.                                *)
(***************************************************************************)
CreateApis ==
    {"CreateIpam", "CreateIpamScope", "CreateIpamPool",
     "CreateDBParameterGroup"}

\* the lookups by id
LookupApis ==
    {"DescribeIpams", "DescribeIpamScopes", "DescribeIpamPools",
     "DescribeDBParameterGroups"}

\* the create call of a Create succeeded
CreateSucceeded ==
    /\ calls # <<>>
    /\ calls[1].api \in CreateApis
    /\ calls[1].resp = ""

(***************************************************************************)
(* C11  Create sequence: a Create leaves an id only when its create call   *)
(* succeeded, and the id is then the one the call returned; every later    *)
(* call of the Create (poll, Modify, Reset, tags, Read) follows a          *)
(* successful create call, and its lookups ask for the returned id; when   *)
(* the create call fails, or is not made, the id stays unset and no other  *)
(* call is issued.                                                         *)
(***************************************************************************)
C11_CreateSequence ==
    op = "Create" =>
        /\ id # "" => CreateSucceeded /\ id = NewId
        /\ \A i \in DOMAIN calls :
              i > 1 => /\ CreateSucceeded
                       /\ calls[i].api \notin CreateApis
                       /\ calls[i].api \in LookupApis => calls[i].req = NewId
        /\ ~CreateSucceeded => id = "" /\ Len(calls) <= 1

\* a pool is created, polled twice until it is complete, and read
C11_Witness ==
    /\ op = "Create"
    /\ kind = "pool"
    /\ result = "ok"
    /\ id = NewId
    /\ Len(calls) = 4
    /\ calls[2].by = "wait"
    /\ calls[3].by = "wait"
    /\ calls[4].by = "read"

\* the lookups a wait of the handler made
Polls == SelectSeq(calls, LAMBDA c : c.by = "wait")

\* the handlers that wait, with the pending and the target status of the wait
Waits ==
    {[kind |-> "pool", op |-> "Create",
      pending |-> "create-in-progress", target |-> "create-complete"],
     [kind |-> "pool", op |-> "Update",
      pending |-> "modify-in-progress", target |-> "modify-complete"],
     [kind |-> "pool", op |-> "Delete",
      pending |-> "delete-in-progress",
      target |-> "InvalidIpamPoolId.NotFound"],
     [kind |-> "ipam", op |-> "Delete",
      pending |-> "Available", target |-> "InvalidIpamId.NotFound"],
     [kind |-> "scope", op |-> "Delete",
      pending |-> "Available", target |-> "InvalidIpamScopeId.NotFound"]}

\* the status a poll observed: the not-found token, the state of the pool,
\* "Available" for an IPAM or a scope, "" when the lookup gave no status
Observed(c) ==
    IF c.resp.out = "error"
    THEN IF c.resp.code \in {"InvalidIpamId.NotFound",
                             "InvalidIpamScopeId.NotFound",
                             "InvalidIpamPoolId.NotFound"}
         THEN c.resp.code ELSE ""
    ELSE IF kind = "pool" THEN c.resp.state
    ELSE "Available"

\* the wait w ended by the timeout: every poll observed the pending status
PollTimedOut(w) ==
    /\ Polls # <<>>
    /\ \A i \in DOMAIN Polls :
          Polls[i].resp.out # "error" /\ Observed(Polls[i]) = w.pending

\* the wait w ended on a status that is neither pending nor the target
PollUnexpected(w) ==
    /\ Polls # <<>>
    /\ Polls[Len(Polls)].resp.out = "found"
    /\ Observed(Polls[Len(Polls)]) \notin {w.pending, w.target}

(***************************************************************************)
(* C12  Polling timeout is fatal: when the wait of a pool Create, of a     *)
(* pool Update or of an IPAM, scope or pool Delete ends by the timeout or  *)
(* on a status outside the pending and target sets, the handler returns an *)
(* error, makes no Read, and the id (the one Create set) is kept.          *)
(***************************************************************************)
C12_PollingTimeoutFatal ==
    \A w \in Waits :
        (kind = w.kind /\ op = w.op /\ (PollTimedOut(w) \/ PollUnexpected(w)))
            => /\ result = "error"
               /\ \A i \in DOMAIN calls : calls[i].by # "read"
               /\ id = NewId

\* a pool Create whose two polls both observe create-in-progress
C12_Witness ==
    /\ kind = "pool"
    /\ op = "Create"
    /\ Len(Polls) = 2
    /\ \A i \in DOMAIN Polls : Polls[i].resp = Found("create-in-progress")
    /\ result = "error"
    /\ id = NewId
    /\ Len(calls) = 3

\* the error code a call returned, "" when it returned none
ErrCode(c) ==
    IF c.by = "handler" THEN c.resp
    ELSE IF kind = "pg"
    THEN IF c.resp \in {"found", "empty", ""} THEN "" ELSE c.resp
    ELSE IF c.resp.out = "error" THEN c.resp.code ELSE ""

\* the errors a handler may take for something else than a failure:
\* not-found on a read, not-found on a delete, the invalid-state fault of
\* the delete of a parameter group
Tolerated(c) ==
    \/ c.by = "read" /\ ErrCode(c) = NotFoundCode(kind)
    \/ op = "Delete" /\ ErrCode(c) = NotFoundCode(kind)
    \/ /\ op = "Delete"
       /\ kind = "pg"
       /\ ErrCode(c) = InvalidDBParameterGroupStateFault

(***************************************************************************)
(* C13  Error propagation: an API error of a handler, other than the       *)
(* tolerated ones, is the last call of the handler and the handler returns *)
(* an error: it is not retried, not followed by another call, not          *)
(* swallowed, and it does not crash the handler.                           *)
(***************************************************************************)
C13_ErrorPropagation ==
    \A i \in DOMAIN calls :
        (ErrCode(calls[i]) # "" /\ ~Tolerated(calls[i]))
            => i = Len(calls) /\ result = "error"

\* S with the immediate "character_set" parameters first, then the other
\* immediate ones, then the pending-reboot ones, each in arrival order
Reference(S) ==
    SelectSeq(S, LAMBDA p : Class(p) = 1)
    \o SelectSeq(S, LAMBDA p : Class(p) = 2)
    \o SelectSeq(S, LAMBDA p : Class(p) = 3)

(***************************************************************************)
(* C14  Reference result of one planning call: for an input S of more than *)
(* K parameters the batch is the first K elements of Reference(S).         *)
(***************************************************************************)
C14_ReferenceBatch ==
    (Called /\ Len(InElems) > maxChunkSize) =>
        ChunkElems = SubSeq(Reference(InElems), 1, maxChunkSize)

\* S = [character_set_client (immediate), character_set_server
\* (pending-reboot), max_connections (immediate)], K = 2
C14_Witness ==
    /\ Called
    /\ maxChunkSize = 2
    /\ InElems =
          << MkParam(1, [ParameterName |-> "character_set_client",
                         ApplyMethod |-> "immediate"]),
             MkParam(2, [ParameterName |-> "character_set_server",
                         ApplyMethod |-> "pending-reboot"]),
             MkParam(3, [ParameterName |-> "max_connections",
                         ApplyMethod |-> "immediate"]) >>
    /\ ChunkElems = <<InElems[1], InElems[3]>>
    /\ RemainderElems = <<InElems[2]>>

(***************************************************************************)
(* C15  Priority across batches: of two parameters placed in different     *)
(* batches of the planning loop, the one in the earlier batch has the      *)
(* class of higher or equal priority: no pending-reboot parameter goes     *)
(* before an immediate one, no other immediate parameter before an         *)
(* immediate "character_set" one.                                          *)
(***************************************************************************)
C15_PriorityAcrossBatches ==
    \A i, j \in DOMAIN batches :
        i < j => \A m \in DOMAIN batches[i], n \in DOMAIN batches[j] :
                    Class(batches[i][m]) <= Class(batches[j][n])

\* three batches, one class each, from an input that starts with a
\* pending-reboot parameter and ends with an immediate "character_set" one
C15_Witness ==
    /\ pc = "done"
    /\ Len(batches) = 3
    /\ Len(all.elems) = 3
    /\ Class(all.elems[1]) = 3
    /\ Class(all.elems[2]) = 2
    /\ Class(all.elems[3]) = 1
    /\ batches = << <<all.elems[3]>>, <<all.elems[2]>>, <<all.elems[1]>> >>

ResetCalls == SelectSeq(calls, LAMBDA c : c.api = "ResetDBParameterGroup")

TagCalls == SelectSeq(calls, LAMBDA c : c.api = "UpdateTags")

\* the step of resourceParameterGroupUpdate a call belongs to
Stage(c) ==
    CASE c.api = "ModifyDBParameterGroup" -> 1
      [] c.api = "ResetDBParameterGroup" -> 2
      [] c.api = "UpdateTags" -> 3
      [] OTHER -> 4

(***************************************************************************)
(* C16  Update call ordering: in the Update of a parameter group the       *)
(* Modify calls come first, then the Reset calls, then the tag update,     *)
(* then the calls of the Read; the Read is made only when every call       *)
(* before it succeeded, and a failing Modify, Reset or tag call is the     *)
(* last call and ends the Update with an error.                            *)
(***************************************************************************)
C16_UpdateCallOrdering ==
    (op = "Update" /\ kind = "pg") =>
        /\ \A i, j \in DOMAIN calls :
              i < j => Stage(calls[i]) <= Stage(calls[j])
        /\ \A i, j \in DOMAIN calls :
              (i < j /\ calls[j].by = "read" /\ calls[i].by = "handler")
                  => calls[i].resp = ""
        /\ \A i \in DOMAIN calls :
              (calls[i].by = "handler" /\ calls[i].resp # "")
                  => i = Len(calls) /\ result = "error"

\* one Modify call, two Reset calls of which the second fails: no tag
\* update and no Read, although the tags changed
C16_Witness ==
    /\ op = "Update"
    /\ kind = "pg"
    /\ Len(ModifyCalls) = 1
    /\ Len(ResetCalls) = 2
    /\ ResetCalls[1].resp = ""
    /\ ResetCalls[2].resp # ""
    /\ HasChange(din, "tags_all")
    /\ Len(calls) = 3
    /\ result = "error"

\* two Modify calls, a Reset call, the tag update and the Read, all
\* successful
C16_WitnessAll ==
    /\ op = "Update"
    /\ kind = "pg"
    /\ Len(ModifyCalls) = 2
    /\ Len(ResetCalls) = 1
    /\ Len(TagCalls) = 1
    /\ calls[Len(calls)].by = "read"
    /\ result = "ok"

\* the parameters the Modify and the Reset calls of the handler carry
Sent(cs) == Flatten([i \in DOMAIN cs |-> cs[i].req])

NamesOf(set) == { e.name : e \in set }

NamesSent(cs) == { Sent(cs)[i].ParameterName : i \in DOMAIN Sent(cs) }

(***************************************************************************)
(* C17  Reset set: when no Modify and no Reset call of an Update fails,    *)
(* the names sent to ResetDBParameterGroup are exactly the names of the    *)
(* old set that no element of the new set bears; each of them is sent      *)
(* once, with a parameter of the old set, in a Reset call of at most 20    *)
(* parameters; and no name is sent both in a Modify and in a Reset call.   *)
(***************************************************************************)
C17_ResetSet ==
    (/\ op = "Update"
     /\ kind = "pg"
     /\ \A i \in DOMAIN calls : Stage(calls[i]) <= 2 => calls[i].resp = "")
    =>  /\ NamesSent(ResetCalls)
              = NamesOf(din.old.parameter) \ NamesOf(din.new.parameter)
        /\ Len(Sent(ResetCalls)) = Cardinality(NamesSent(ResetCalls))
        /\ \A i \in DOMAIN Sent(ResetCalls) :
              LET p == Sent(ResetCalls)[i]
              IN  [name |-> p.ParameterName, value |-> p.ParameterValue,
                   apply_method |-> p.ApplyMethod] \in din.old.parameter
        /\ \A i \in DOMAIN ResetCalls :
              Len(ResetCalls[i].req) \in 1..20
        /\ NamesSent(ModifyCalls) \cap NamesSent(ResetCalls) = {}

\* the value of character_set_1 changes while 20 other names are dropped:
\* one Modify call carries the name, one Reset call the 20 others
C17_Witness ==
    /\ op = "Update"
    /\ kind = "pg"
    /\ result = "ok"
    /\ "character_set_1" \in NamesSent(ModifyCalls)
    /\ "character_set_1" \in NamesOf(din.old.parameter)
    /\ Len(ResetCalls) = 1
    /\ Len(ResetCalls[1].req) = 20

\* 21 names are dropped: two Reset calls, the second with one parameter
C17_WitnessChunks ==
    /\ op = "Update"
    /\ kind = "pg"
    /\ Len(ResetCalls) = 2
    /\ Len(ResetCalls[1].req) = 20
    /\ Len(ResetCalls[2].req) = 1
    /\ \A i \in DOMAIN ResetCalls : ResetCalls[i].resp = ""

\* the DescribeDBParameters call of the Read of a parameter group
DescribeParamsCalls ==
    SelectSeq(calls, LAMBDA c : c.api = "DescribeDBParameters")

\* the returned parameters a Read with a configuration has to keep
ToKeep ==
    { p \in Range(paramsRead.parameters) :
        /\ p.Source # None
        /\ p.ParameterName # None
        /\ \/ p.Source = Some("user")
           \/ \E e \in din.new.parameter : Some(e.name) = p.ParameterName }

(***************************************************************************)
(* C18  Parameters kept by Read: a Read of a parameter group whose         *)
(* configuration holds a parameter keeps the returned parameters of        *)
(* non-nil name and source that are user-set or bear the name of a         *)
(* configured parameter, each once, and no other; a Read whose             *)
(* configuration holds none asks for the user-set parameters only and      *)
(* keeps all that are returned.                                            *)
(***************************************************************************)
C18_ParametersKeptByRead ==
    (kind = "pg" /\ paramsRead.kept) =>
        IF din.new.parameter # {}
        THEN /\ Range(paramsRead.userParams) = ToKeep
             /\ Len(paramsRead.userParams) = Cardinality(ToKeep)
             /\ DescribeParamsCalls[1].req = None
        ELSE /\ paramsRead.userParams = paramsRead.parameters
             /\ DescribeParamsCalls[1].req = Some("user")

\* two configured parameters bear the name character_set_client; of the
\* two engine defaults returned the one of that name is kept, once
C18_Witness ==
    /\ kind = "pg"
    /\ op = "Read"
    /\ paramsRead.kept
    /\ Cardinality(din.new.parameter) = 2
    /\ NamesOf(din.new.parameter) = {"character_set_client"}
    /\ Len(paramsRead.parameters) = 2
    /\ \A i \in 1..2 : paramsRead.parameters[i].Source = Some("system")
    /\ paramsRead.parameters[2].ParameterName = Some("max_connections")
    /\ paramsRead.userParams = <<paramsRead.parameters[1]>>

ModifyIpamCalls == SelectSeq(calls, LAMBDA c : c.api = "ModifyIpam")

(***************************************************************************)
(* C19  IPAM Update issues the necessary call: an Update of an IPAM whose  *)
(* description or operating_regions changed issues a ModifyIpam call, and  *)
(* the call carries the new description when the description changed and   *)
(* the added and the removed regions when the regions changed.             *)
(***************************************************************************)
C19_IpamUpdateIssuesCall ==
    (/\ op = "Update"
     /\ kind = "ipam"
     /\ HasChange(din, "description") \/ HasChange(din, "operating_regions"))
    =>  /\ Len(ModifyIpamCalls) = 1
        /\ LET req == ModifyIpamCalls[1].req
               added == din.new.operating_regions \ din.old.operating_regions
               removed == din.old.operating_regions \ din.new.operating_regions
           IN  /\ HasChange(din, "description")
                     => req.Description = Some(din.new.description)
               /\ added # {} => req.AddOperatingRegions # None
               /\ removed # {} => req.RemoveOperatingRegions # None

RegionNames(field) ==
    IF field = None THEN {} ELSE { r.RegionName : r \in field[1] }

(***************************************************************************)
(* C20  Operating-region diff: the ModifyIpam request of an IPAM Update    *)
(* from region set O to region set N adds exactly N \ O and removes        *)
(* exactly O \ N; the two sets are disjoint, removing then adding them     *)
(* turns O into N, and an empty set is left out of the request.            *)
(***************************************************************************)
C20_OperatingRegionDiff ==
    (op = "Update" /\ kind = "ipam" /\ Len(ModifyIpamCalls) > 0)
    =>  LET req == ModifyIpamCalls[1].req
            O == din.old.operating_regions
            N == din.new.operating_regions
            added == RegionNames(req.AddOperatingRegions)
            removed == RegionNames(req.RemoveOperatingRegions)
        IN  /\ added = N \ O
            /\ removed = O \ N
            /\ added \cap removed = {}
            /\ (O \ removed) \cup added = N
            /\ req.AddOperatingRegions # Some({})
            /\ req.RemoveOperatingRegions # Some({})
            /\ N \ O = {} => req.AddOperatingRegions = None
            /\ O \ N = {} => req.RemoveOperatingRegions = None

C20_Witness ==
    /\ op = "Update"
    /\ kind = "ipam"
    /\ Len(ModifyIpamCalls) = 1
    /\ RegionNames(ModifyIpamCalls[1].req.AddOperatingRegions) # {}
    /\ RegionNames(ModifyIpamCalls[1].req.RemoveOperatingRegions) # {}

C20_WitnessEmptyRemove ==
    /\ op = "Update"
    /\ kind = "ipam"
    /\ Len(ModifyIpamCalls) = 1
    /\ ModifyIpamCalls[1].req.AddOperatingRegions # None
    /\ ModifyIpamCalls[1].req.RemoveOperatingRegions = None

CreateIpamCalls == SelectSeq(calls, LAMBDA c : c.api = "CreateIpam")

(***************************************************************************)
(* C21  IPAM Create region check: a Create of an IPAM whose declared       *)
(* operating_regions do not include the provider's current region ends     *)
(* with an error, without a CreateIpam call and without an id; when they   *)
(* include it, the first call is CreateIpam with exactly the declared      *)
(* regions and no other CreateIpam call is made.                           *)
(***************************************************************************)
C21_CreateRegionCheck ==
    (op = "Create" /\ kind = "ipam") =>
        IF region \notin din.new.operating_regions
        THEN /\ result = "error"
             /\ calls = <<>>
             /\ id = ""
        ELSE /\ Len(CreateIpamCalls) = 1
             /\ calls[1].api = "CreateIpam"
             /\ RegionNames(Some(calls[1].req.OperatingRegions))
                    = din.new.operating_regions
             /\ Cardinality(calls[1].req.OperatingRegions)
                    = Cardinality(din.new.operating_regions)

\* the current region is not declared: the Create is refused
C21_Witness ==
    /\ op = "Create"
    /\ kind = "ipam"
    /\ region \notin din.new.operating_regions
    /\ result = "error"
    /\ id = ""

\* the current region is declared among two: CreateIpam carries both
C21_WitnessIssued ==
    /\ op = "Create"
    /\ kind = "ipam"
    /\ region \in din.new.operating_regions
    /\ Cardinality(din.new.operating_regions) = 2
    /\ Len(CreateIpamCalls) = 1
    /\ id # ""

\* the rearrangements of the positions 1..n, for every length of an input
Rearrangements ==
    [n \in 0..MaxParams |->
        { f \in [1..n -> 1..n] : \A i, j \in 1..n : f[i] = f[j] => i = j }]

\* the arrival orders of the parameters of s
ArrivalOrders(s) ==
    { [i \in DOMAIN s |-> s[f[i]]] : f \in Rearrangements[Len(s)] }

\* s with its elements at i and i + 1 exchanged
Exchanged(s, i) ==
    [j \in DOMAIN s |-> IF j = i THEN s[i + 1] ELSE IF j = i + 1 THEN s[i] ELSE s[j]]

\* the arrival orders of s that differ from s in two neighbours; every
\* arrival order of s is reached from s by a chain of such exchanges
NeighbourOrders(s) == { Exchanged(s, i) : i \in 1..(Len(s) - 1) }

\* the priority mix of a batch: how many immediate "character_set"
\* parameters, other immediate parameters and pending-reboot parameters
PriorityMix(batch) ==
    [charset |-> Cardinality({ i \in DOMAIN batch :
                     /\ Contains(batch[i].ParameterName, "character_set")
                     /\ batch[i].ApplyMethod = "immediate" }),
     immediate |-> Cardinality({ i \in DOMAIN batch :
                     /\ ~Contains(batch[i].ParameterName, "character_set")
                     /\ batch[i].ApplyMethod = "immediate" }),
     reboot |-> Cardinality({ i \in DOMAIN batch :
                     batch[i].ApplyMethod = "pending-reboot" })]

\* the priority mix of the batch the planner returns for the arrival order q
MixOf(q) ==
    PriorityMix(ResourceParameterModifyChunk(MkSlice(q), maxChunkSize).chunk.elems)

(***************************************************************************)
(* C22  Order independence of the priority mix: the batch the planner      *)
(* returned for its last input has the same number of immediate            *)
(* "character_set" parameters, of other immediate parameters and of        *)
(* pending-reboot parameters as the batch it returns, with the same K,     *)
(* for the same parameters with two neighbours exchanged.  Every sequence  *)
(* of parameter kinds is an input and every arrival order is a chain of    *)
(* such exchanges, so the mix is the same for any two arrival orders.      *)
(***************************************************************************)
C22_OrderIndependentMix ==
    (Len(batches) > 0 /\ ~lastIn.nil) =>
        \A q \in NeighbourOrders(lastIn.elems) :
            MixOf(q) = PriorityMix(lastOut.chunk.elems)

\* the same, compared with every arrival order of the last input at once
C22_AllArrivalOrders ==
    (Len(batches) > 0 /\ ~lastIn.nil) =>
        \A q \in ArrivalOrders(lastIn.elems) :
            MixOf(q) = PriorityMix(lastOut.chunk.elems)

\* an input longer than K holding the three classes, whose batch is not
\* the batch of another arrival order although the mix is the same
C22_Witness ==
    /\ Len(batches) = 1
    /\ Len(lastIn.elems) > maxChunkSize
    /\ \A c \in {"charset", "immediate", "reboot"} :
          PriorityMix(lastIn.elems)[c] > 0
    /\ \E q \in ArrivalOrders(lastIn.elems) :
          Range(ResourceParameterModifyChunk(MkSlice(q), maxChunkSize).chunk.elems)
              # Range(lastOut.chunk.elems)

\* a Delete of an IPAM, a scope or a pool whose delete call succeeded
DeletePolled ==
    /\ op = "Delete"
    /\ kind \in {"ipam", "scope", "pool"}
    /\ calls # <<>>
    /\ calls[1].resp = ""

\* the wait of the Delete of the kind at hand
DeleteWait == CHOOSE w \in Waits : w.kind = kind /\ w.op = "Delete"

LastPoll == Polls[Len(Polls)]

\* the Delete returned success only after a poll observed the not-found
\* status of the kind
C23_SuccessAfterNotFound ==
    (DeletePolled /\ result = "ok") =>
        /\ Polls # <<>>
        /\ LastPoll.resp = Failed(NotFoundCode(kind))
        /\ Observed(LastPoll) = DeleteWait.target

\* a lookup error other than not-found ends the poll and the Delete with an
\* error
C23_LookupErrorFatal ==
    (DeletePolled /\ Polls # <<>>) =>
        \A i \in DOMAIN Polls :
            (Polls[i].resp.out = "error"
                /\ Polls[i].resp.code # NotFoundCode(kind))
            => i = Len(Polls) /\ result = "error"

\* polls that all report an existing resource end by the timeout, with an
\* error
C23_ExistingTimesOut ==
    (DeletePolled /\ Polls # <<>>
        /\ \A i \in DOMAIN Polls : Polls[i].resp.out = "found")
    => result = "error" /\ PollTimedOut(DeleteWait)

(***************************************************************************)
(* C23  Delete waits for removal, as claimed: after a successful delete    *)
(* call the Delete of an IPAM, a scope or a pool returns success only once *)
(* a poll observed the not-found status of the kind; a lookup error other  *)
(* than not-found ends the poll and the Delete with an error; and polls    *)
(* that keep reporting an existing resource make the Delete fail by the    *)
(* timeout.                                                                *)
(***************************************************************************)
C23_Original ==
    /\ C23_SuccessAfterNotFound
    /\ C23_LookupErrorFatal
    /\ C23_ExistingTimesOut

\* what the handlers do for polls that all report an existing resource: the
\* Delete fails, by the timeout when every poll observed the pending status
\* and else on the first status that is not pending, which only a pool has
C23_ExistingNeverSucceeds ==
    (DeletePolled /\ Polls # <<>>
        /\ \A i \in DOMAIN Polls : Polls[i].resp.out = "found")
    =>  /\ result = "error"
        /\ PollTimedOut(DeleteWait) \/ PollUnexpected(DeleteWait)
        /\ PollUnexpected(DeleteWait) => kind = "pool"

(***************************************************************************)
(* C23  Delete waits for removal: after a successful delete call the       *)
(* Delete of an IPAM, a scope or a pool returns success only once a poll   *)
(* observed the not-found status of the kind; a lookup error other than    *)
(* not-found ends the poll and the Delete with an error; and polls that    *)
(* keep reporting an existing resource make the Delete fail: by the        *)
(* timeout while the pending status is observed ("Available" for an IPAM   *)
(* or a scope, "delete-in-progress" for a pool), and at once when a pool   *)
(* is reported in another state.                                           *)
(***************************************************************************)
C23_DeleteWaitsForRemoval ==
    /\ C23_SuccessAfterNotFound
    /\ C23_LookupErrorFatal
    /\ C23_ExistingNeverSucceeds

\* a pool still reported as created after DeleteIpamPool: the Delete fails
\* on the first poll
C23_Witness ==
    /\ DeletePolled
    /\ kind = "pool"
    /\ Len(Polls) = 1
    /\ LastPoll.resp = Found(IpamPoolStateCreateComplete)
    /\ result = "error"

\* an IPAM reported by every poll up to the timeout
C23_WitnessTimeout ==
    /\ DeletePolled
    /\ kind = "ipam"
    /\ Len(Polls) = MaxPolls
    /\ PollTimedOut(DeleteWait)
    /\ result = "error"

\* a scope reported once and then not found: the Delete succeeds
C23_WitnessRemoved ==
    /\ DeletePolled
    /\ kind = "scope"
    /\ Len(Polls) > 1
    /\ Polls[1].resp.out = "found"
    /\ LastPoll.resp = Failed(NotFoundCode(kind))
    /\ result = "ok"

\* a lookup error other than not-found during the wait of a pool Delete
C23_WitnessLookupError ==
    /\ DeletePolled
    /\ kind = "pool"
    /\ Len(Polls) > 1
    /\ LastPoll.resp = Failed(InternalError)
    /\ result = "error"

====
